---- MODULE Spec2Model ----
(***************************************************************************)
(* A model of the MERCAT validator orchestrator (mercat/common/src/        *)
(* validate.rs) over an ElGamal ciphertext layer.  The object store is the *)
(* state: the public accounts, the transaction files with their substate   *)
(* and the LAST_VALIDATED_TX_ID file.  One validate_all_pending run is a   *)
(* sequence of steps: load the ready transactions, dispatch each of them,  *)
(* collect the accounts named by the results, fold the results into each   *)
(* account, write LAST_VALIDATED_TX_ID.                                    *)
(***************************************************************************)
EXTENDS Integers, Sequences, FiniteSets, TLC

(***************************************************************************)
(* Bounds of the model.                                                    *)
(***************************************************************************)
\* The number of transaction files the environment adds to the store.
MaxTx == 2

\* The number of transient store failures the dispatch loop of one run meets.
MaxFaults == 1

(***************************************************************************)
(* Scalars and group points.  The group is the direct sum of the subgroups *)
(* generated by G and by H (log_G H unknown), so a point is the pair of    *)
(* its coefficients <<g, h>>, both modulo the group order.  Ell is a       *)
(* prime standing for the Ristretto order 2^252 + 27742...; RangeMax       *)
(* stands for the range proof's 2^64 (RangeMax < Ell / 2, so that a        *)
(* negative plaintext wraps outside the range as it does in the code).     *)
(***************************************************************************)
Ell == 2^8 - 5

RangeMax == 2^7

G == <<1, 0>>

H == <<0, 1>>

PAdd(p, q) == <<(p[1] + q[1]) % Ell, (p[2] + q[2]) % Ell>>

PSub(p, q) == <<(p[1] - q[1]) % Ell, (p[2] - q[2]) % Ell>>

SMul(k, p) == <<(k * p[1]) % Ell, (k * p[2]) % Ell>>

(***************************************************************************)
(* ElGamal: public key P = s*H, ciphertext (X, Y) = (r*P + v*G, r*H).      *)
(***************************************************************************)
PubKey(s) == SMul(s, H)

Encrypt(P, v, r) == [x |-> PAdd(SMul(r, P), SMul(v, G)), y |-> SMul(r, H)]

CAdd(c, d) == [x |-> PAdd(c.x, d.x), y |-> PAdd(c.y, d.y)]

CSub(c, d) == [x |-> PSub(c.x, d.x), y |-> PSub(c.y, d.y)]

\* X - s*Y = v*G; the plaintext is the discrete logarithm of that point to
\* the base G.  DecryptFail when the point is no multiple of G.
DecryptFail == 0 - 1

Decrypt(s, c) ==
    LET m == PSub(c.x, SMul(s, c.y))
    IN  IF m[2] = 0 THEN m[1] ELSE DecryptFail

\* refresh: the ciphertext re-randomised with blinding r, <<>> when the key
\* does not decrypt it (DecryptionFailure).
Refresh(s, c, r) ==
    IF Decrypt(s, c) = DecryptFail THEN <<>>
    ELSE <<[x |-> PAdd(c.x, SMul(r, PubKey(s))), y |-> PAdd(c.y, SMul(r, H))]>>

(***************************************************************************)
(* The ciphertext-refreshment proof (ciphertext_refreshment_proof.rs) and  *)
(* the non-interactive driver (encryption_proofs.rs).  A verdict is "Ok"   *)
(* or the check of CiphertextRefreshmentFinalResponseVerificationError.    *)
(***************************************************************************)
\* The scalars the prover, the dealer and the environment draw: 0..MaxScalar.
MaxScalar == 3

Scalars == 0..MaxScalar

\* The plaintext of the proof's test.
SecretValue == 13

\* CipherTextRefreshmentInitialMessage::default().
DefaultInitialMessage == [a |-> G, b |-> G]

\* CipherTextRefreshmentProverAwaitingChallenge::new.
ProverAwaitingChallengeNew(secret_key, ciphertext1, ciphertext2) ==
    [secret_key |-> secret_key, y |-> PSub(ciphertext1.y, ciphertext2.y)]

\* The state of a transcript that absorbed its protocol label only.
NewTranscript == 1

\* build_rng().rekey_with_witness_bytes(label, bytes).finalize(rng), then
\* Scalar::random: the scalar drawn is a fixed function of the transcript
\* state, of the bytes the generator was rekeyed with and of the entropy of
\* rng, one-to-one in the entropy.
TranscriptRngScalar(transcript_state, witness_bytes, rng) ==
    (transcript_state + witness_bytes[1] + 2 * witness_bytes[2] + rng) % (MaxScalar + 1)

\* create_transcript_rng, as the scalar the generator gives to
\* generate_initial_message: the generator is rekeyed with the bytes of y.
CreateTranscriptRng(prover_ac, rng, transcript_state) ==
    TranscriptRngScalar(transcript_state, prover_ac.y, rng)

\* generate_initial_message with rand_commitment the scalar drawn from rng.
GenerateInitialMessage(prover_ac, rand_commitment) ==
    [prover |-> [secret_key |-> prover_ac.secret_key, u |-> rand_commitment],
     initial_message |-> [a |-> SMul(rand_commitment, prover_ac.y),
                          b |-> SMul(rand_commitment, H)]]

\* Mutant of ApplyChallenge: the challenge term is subtracted.
ApplyChallenge_Subtracts(prover, c) == (prover.u - c * prover.secret_key) % Ell

\* apply_challenge.
ApplyChallenge(prover, c) == (prover.u + c * prover.secret_key) % Ell

\* Mutant of VerifierNew: x is the sum of the X parts.
VerifierNew_AddsX(pub_key, ciphertext1, ciphertext2) ==
    [pub_key |-> pub_key,
     x |-> PAdd(ciphertext1.x, ciphertext2.x),
     y |-> PSub(ciphertext1.y, ciphertext2.y)]

\* CipherTextRefreshmentVerifier::new.
VerifierNew(pub_key, ciphertext1, ciphertext2) ==
    [pub_key |-> pub_key,
     x |-> PSub(ciphertext1.x, ciphertext2.x),
     y |-> PSub(ciphertext1.y, ciphertext2.y)]

\* Mutant of Verify: the first equation is not checked.
Verify_SkipsCheck1(verifier, challenge, initial_message, z) ==
    IF SMul(z, H) # PAdd(initial_message.b, SMul(challenge, verifier.pub_key))
    THEN "check: 2"
    ELSE "Ok"

\* Mutant of Verify: the second equation is not checked.
Verify_SkipsCheck2(verifier, challenge, initial_message, z) ==
    IF SMul(z, verifier.y) # PAdd(initial_message.a, SMul(challenge, verifier.x))
    THEN "check: 1"
    ELSE "Ok"

\* Mutant of Verify: the second equation is checked first.
Verify_Check2First(verifier, challenge, initial_message, z) ==
    IF SMul(z, H) # PAdd(initial_message.b, SMul(challenge, verifier.pub_key))
    THEN "check: 2"
    ELSE IF SMul(z, verifier.y) # PAdd(initial_message.a, SMul(challenge, verifier.x))
    THEN "check: 1"
    ELSE "Ok"

\* CipherTextRefreshmentVerifier::verify.
Verify(verifier, challenge, initial_message, z) ==
    IF SMul(z, verifier.y) # PAdd(initial_message.a, SMul(challenge, verifier.x))
    THEN "check: 1"
    ELSE IF SMul(z, H) # PAdd(initial_message.b, SMul(challenge, verifier.pub_key))
    THEN "check: 2"
    ELSE "Ok"

\* update_transcript of the initial message on a new transcript, then
\* scalar_challenge: a fixed function of the points absorbed, standing for the
\* hash.
ScalarChallenge(initial_message) ==
    (1 + initial_message.a[1] + 2 * initial_message.a[2]
       + 3 * initial_message.b[1] + 5 * initial_message.b[2]) % Ell

\* single_property_prover through prove_multiple_encryption_properties.
SinglePropertyProver(prover_ac, rand_commitment) ==
    LET first_round == GenerateInitialMessage(prover_ac, rand_commitment)
        challenge == ScalarChallenge(first_round.initial_message)
    IN  [initial_message |-> first_round.initial_message,
         final_response |-> ApplyChallenge(first_round.prover, challenge)]

\* single_property_verifier through verify_multiple_encryption_properties.
SinglePropertyVerifier(verifier, initial_message, final_response) ==
    Verify(verifier, ScalarChallenge(initial_message), initial_message, final_response)

(***************************************************************************)
(* Batches: prove_multiple_encryption_properties and                       *)
(* verify_multiple_encryption_properties.  A transcript is the sequence of *)
(* the initial messages it absorbed after its label.                       *)
(***************************************************************************)
\* The encoding of no point: it does not decompress.
InvalidPoint == <<Ell, Ell>>

\* append_validated_point accepts the point.
IsValidPoint(point) == point # InvalidPoint

\* Mutant of UpdateTranscriptFails: b is appended without validation.
UpdateTranscriptFails_ValidatesAOnly(initial_message) ==
    ~IsValidPoint(initial_message.a)

\* update_transcript returns the error of append_validated_point.
UpdateTranscriptFails(initial_message) ==
    \/ ~IsValidPoint(initial_message.a)
    \/ ~IsValidPoint(initial_message.b)

RECURSIVE TranscriptChallenge(_)
\* scalar_challenge of a transcript: a fixed function of the sequence of the
\* messages absorbed, ScalarChallenge for one message.
TranscriptChallenge(absorbed) ==
    IF absorbed = <<>> THEN NewTranscript
    ELSE (7 * (TranscriptChallenge(SubSeq(absorbed, 1, Len(absorbed) - 1))
                 - NewTranscript)
          + ScalarChallenge(absorbed[Len(absorbed)])) % Ell

\* The initial message of a prover of another statement kind whose
\* commitment does not encode.
UnencodableMessage == [a |-> G, b |-> InvalidPoint]

\* Lines 203-206: every prover's generate_initial_message, in input order.
GenerateInitialMessages(ps) ==
    [i \in 1..Len(ps) |->
        IF ps[i].encodes
        THEN GenerateInitialMessage(
                 ProverAwaitingChallengeNew(ps[i].secret_key, ps[i].ciphertext1,
                                            ps[i].ciphertext2),
                 ps[i].rand_commitment).initial_message
        ELSE UnencodableMessage]

\* Mutant of ApplyChallenges: each prover is given a challenge of its own.
ApplyChallenges_OwnChallenge(ps, challenge) ==
    [i \in 1..Len(ps) |->
        ApplyChallenge([secret_key |-> ps[i].secret_key, u |-> ps[i].rand_commitment],
                       (challenge + i - 1) % Ell)]

\* Lines 216-219: every prover's apply_challenge on the one challenge.
ApplyChallenges(ps, challenge) ==
    [i \in 1..Len(ps) |->
        ApplyChallenge([secret_key |-> ps[i].secret_key, u |-> ps[i].rand_commitment],
                       challenge)]

\* Mutant of ShapeMismatch: the number of verifiers is not compared.
ShapeMismatch_IgnoresVerifiers(vs, ms, zs) == Len(ms) # Len(zs)

\* Mutant of ShapeMismatch: a batch of no statement is refused.
ShapeMismatch_RefusesEmpty(vs, ms, zs) ==
    Len(ms) # Len(zs) \/ Len(vs) # Len(zs) \/ Len(vs) = 0

\* Lines 241-243.
ShapeMismatch(vs, ms, zs) == Len(ms) # Len(zs) \/ Len(vs) # Len(zs)

(***************************************************************************)
(* The ledger's fixed parties.  Account ids 1 and 2 are registered (an     *)
(* account-creation record exists, so get_user_ticker_from finds them);    *)
(* id 3 is an id no account-creation record exists for.                    *)
(***************************************************************************)
Users == {"A", "B"}

Ticker == "T"

NA == "n/a"

AccountIds == {1, 2}

\* The account ids a transaction file may name.
TxAccountIds == {1, 2, 3}

UserOf(account_id) == IF account_id = 1 THEN "A" ELSE "B"

IdOf(user) == IF user = "A" THEN 1 ELSE 2

\* The ElGamal secret key of the owner of an account id (never in the store).
SecretKey(account_id) == account_id + 1

\* get_user_ticker_from(account_id, db_dir): <<user, ticker>>, or <<>> on error.
GetUserTickerFrom(account_id) ==
    IF account_id \in AccountIds THEN <<UserOf(account_id), Ticker>> ELSE <<>>

\* The PubAccount of an account-creation transaction: a zero balance.
NewPubAccount(account_id) ==
    [id |-> account_id,
     enc_asset_id |-> Encrypt(PubKey(SecretKey(account_id)), 1, 1),
     enc_balance |-> Encrypt(PubKey(SecretKey(account_id)), 0, 0),
     memo |-> [owner_enc_pub_key |-> PubKey(SecretKey(account_id)),
               last_processed_tx_counter |-> 0]]

(***************************************************************************)
(* Transaction files.  tx_id is the file's index in txs.  ok says whether  *)
(* the signatures and proofs the file carries are valid; amount is the     *)
(* plaintext the ciphertexts were made from (it is never read by the       *)
(* validator).                                                             *)
(***************************************************************************)
AccountTx(account_id, ok) ==
    [kind |-> "Account", account_id |-> account_id, ok |-> ok, state |-> "Started"]

IssueTx(account_id, amount, ok, r) ==
    [kind |-> "IssueJustify", account_id |-> account_id, ok |-> ok,
     state |-> "Started", amount |-> amount,
     enc_issued_amount |-> Encrypt(PubKey(SecretKey(account_id)), amount, r)]

TransferTx(sndr, rcvr, amount, ok, r) ==
    [kind |-> "TransferJustify", sndr_account_id |-> sndr, rcvr_account_id |-> rcvr,
     ok |-> ok, state |-> "Started", amount |-> amount,
     enc_amount_using_sndr |-> Encrypt(PubKey(SecretKey(sndr)), amount, r),
     enc_amount_using_rcvr |-> Encrypt(PubKey(SecretKey(rcvr)), amount, r + 1)]

\* A file of any other kind of CoreTransaction that the enumeration classifies
\* as ready.
OtherTx == [kind |-> "Invalid", state |-> "Started"]

IssuedAmount == 100

TransferAmount == 40

\* The transaction files the environment may add as file number tx_id:
\* account creations (valid ones, and one whose proofs do not verify),
\* issuances to account 1 (valid, invalid) and to the unregistered id,
\* transfers from 1 to 2 (valid, invalid), from 1 to the unregistered id and
\* from 2 to 1, and a ready file of another kind.
NewTxs(tx_id) ==
    {AccountTx(1, TRUE), AccountTx(2, TRUE), AccountTx(2, FALSE), OtherTx}
    \cup {IssueTx(1, IssuedAmount, ok, tx_id) : ok \in BOOLEAN}
    \cup {IssueTx(a, IssuedAmount, TRUE, tx_id) : a \in TxAccountIds \ AccountIds}
    \cup {TransferTx(1, 2, TransferAmount, ok, tx_id) : ok \in BOOLEAN}
    \cup {TransferTx(1, r, TransferAmount, TRUE, tx_id) : r \in TxAccountIds \ AccountIds}
    \cup {TransferTx(2, 1, TransferAmount, TRUE, tx_id)}

\* CoreTransaction::is_ready_for_validation of a loaded transaction file.
IsReadyForValidation(tx) == tx.state = "Started"

RECURSIVE ReadyFrom(_, _)
\* The ready transactions numbered i and above, in ascending tx_id order.
ReadyFrom(files, i) ==
    IF i > Len(files) THEN <<>>
    ELSE IF IsReadyForValidation(files[i]) THEN <<i>> \o ReadyFrom(files, i + 1)
    ELSE ReadyFrom(files, i + 1)

\* load_all_unverified_and_ready.
LoadAllUnverifiedAndReady(files) == ReadyFrom(files, 1)

(***************************************************************************)
(* Validation results.  amount is <<>> for None and <<c>> for Some(c).     *)
(***************************************************************************)
\* ValidationResult::error(user, ticker): no amount.
ErrorResult(user, ticker) ==
    [user |-> user, ticker |-> ticker, direction |-> "Incoming", amount |-> <<>>]

IsError(result) == result.amount = <<>>

Max(a, b) == IF a >= b THEN a ELSE b

(***************************************************************************)
(* The verifiers of the mercat library, by their contracts.                *)
(***************************************************************************)
\* AccountValidator.verify: the membership, key-correctness and
\* wellformedness proofs of the account-creation transaction.
VerifyAccount(account_tx) == account_tx.ok

\* AssetValidator.verify_asset_transaction: the mediator's signature, the
\* correctness proof of enc_issued_amount and the range proof.
VerifyAssetTransaction(asset_tx, issuer_account) == asset_tx.ok

\* The range proof of a transfer verifies exactly when the ciphertext
\* pending_balance - enc_amount_using_sndr encrypts a value of [0, RangeMax).
RangeProofVerifies(tx, pending_balance) ==
    LET v == Decrypt(SecretKey(tx.sndr_account_id),
                     CSub(pending_balance, tx.enc_amount_using_sndr))
    IN  v # DecryptFail /\ v < RangeMax

\* TransactionValidator.verify_transaction: the mediator's signature, the
\* equality and correctness proofs, and the range proof on the pending balance.
VerifyTransaction(tx, sender_account, receiver_account, pending_balance) ==
    tx.ok /\ RangeProofVerifies(tx, pending_balance)

RECURSIVE InFlightBefore(_, _, _, _)
\* The sum of enc_amount_using_sndr over the sender's transfers numbered j and
\* below whose counter exceeds last_processed_tx_counter and which are still
\* in flight (not Validated), subtracted from balance.
InFlightBefore(files, j, sender_account, balance) ==
    IF j < 1 THEN balance
    ELSE LET f == files[j]
             b == IF /\ f.kind = "TransferJustify"
                     /\ f.sndr_account_id = sender_account.id
                     /\ f.state = "Started"
                     /\ j > sender_account.memo.last_processed_tx_counter
                  THEN CSub(balance, f.enc_amount_using_sndr)
                  ELSE balance
         IN  InFlightBefore(files, j - 1, sender_account, b)

\* last_ordering_state_before and compute_enc_pending_balance: the sender's
\* balance less its in-flight outgoing transfers that precede tx_id.
ComputeEncPendingBalance(files, tx_id, sender_account) ==
    InFlightBefore(files, tx_id - 1, sender_account, sender_account.enc_balance)

(***************************************************************************)
(* The three validators of validate.rs.  accounts is the store's public    *)
(* accounts (<<>> for a missing file), io the outcome of the store's       *)
(* transient operations in this call: "ok", "load_err" (a load_object      *)
(* fails) or "save_err" (the save_object fails).                           *)
(***************************************************************************)
IoOutcomes == {"ok", "load_err", "save_err"}

\* The transient outcomes a call of the dispatch loop may meet, given the
\* errors the run has logged: at most MaxFaults transient failures a run.
IoChoices(log) ==
    IF Cardinality({e \in log : e[2] = "io"}) < MaxFaults THEN IoOutcomes ELSE {"ok"}

\* Mutant of ValidateAssetIssuance: the result of verify_asset_transaction is
\* ignored.
ValidateAssetIssuance_CreditsUnverified(accounts, asset_tx, io) ==
    LET res == GetUserTickerFrom(asset_tx.account_id)
    IN  IF res = <<>> \/ io # "ok" \/ accounts[res[1]] = <<>>
        THEN [result |-> ErrorResult(NA, NA), validated |-> FALSE, error |-> "lookup"]
        ELSE [result |-> [user |-> res[1], ticker |-> res[2],
                          amount |-> <<asset_tx.enc_issued_amount>>,
                          direction |-> "Incoming"],
              validated |-> TRUE, error |-> "none"]

\* Mutant of ValidateAssetIssuance: the Validated file is saved before the
\* issuance is verified.
ValidateAssetIssuance_SavesBeforeVerify(accounts, asset_tx, io) ==
    LET res == GetUserTickerFrom(asset_tx.account_id)
    IN  IF res = <<>> \/ io # "ok" \/ accounts[res[1]] = <<>>
        THEN [result |-> ErrorResult(NA, NA), validated |-> FALSE, error |-> "lookup"]
        ELSE IF ~VerifyAssetTransaction(asset_tx, accounts[res[1]][1])
        THEN [result |-> ErrorResult(res[1], res[2]),
              validated |-> TRUE, error |-> "library"]
        ELSE [result |-> [user |-> res[1], ticker |-> res[2],
                          amount |-> <<asset_tx.enc_issued_amount>>,
                          direction |-> "Incoming"],
              validated |-> TRUE, error |-> "none"]

\* validate_asset_issuance: the result, whether the Validated file was saved,
\* and the error logged ("none" when there is none).
ValidateAssetIssuance(accounts, asset_tx, io) ==
    LET res == GetUserTickerFrom(asset_tx.account_id)
    IN  IF res = <<>>
        THEN [result |-> ErrorResult(NA, NA), validated |-> FALSE, error |-> "lookup"]
        ELSE LET issuer == res[1]
                 ticker == res[2]
                 err(e) == [result |-> ErrorResult(issuer, ticker),
                            validated |-> FALSE, error |-> e]
             IN  IF io = "load_err" THEN err("io")
                 ELSE IF accounts[issuer] = <<>> THEN err("missing")
                 ELSE IF ~VerifyAssetTransaction(asset_tx, accounts[issuer][1])
                      THEN err("library")
                 ELSE IF io = "save_err" THEN err("io")
                 ELSE [result |-> [user |-> issuer, ticker |-> ticker,
                                   amount |-> <<asset_tx.enc_issued_amount>>,
                                   direction |-> "Incoming"],
                       validated |-> TRUE, error |-> "none"]

\* Mutant of ValidateTransaction: the results of a failed validation keep
\* the transfer's amounts.
ValidateTransaction_AmountsOnFailure(accounts, tx, pending_balance, io) ==
    LET failed == \/ io # "ok"
                  \/ GetUserTickerFrom(tx.rcvr_account_id) = <<>>
                  \/ accounts[UserOf(tx.sndr_account_id)] = <<>>
                  \/ accounts[UserOf(tx.rcvr_account_id)] = <<>>
                  \/ ~VerifyTransaction(tx, accounts[UserOf(tx.sndr_account_id)][1],
                                        accounts[UserOf(tx.rcvr_account_id)][1],
                                        pending_balance)
    IN  [sender_result |->
             [user |-> UserOf(tx.sndr_account_id), ticker |-> Ticker,
              direction |-> "Outgoing", amount |-> <<tx.enc_amount_using_sndr>>],
         receiver_result |->
             [user |-> UserOf(tx.rcvr_account_id), ticker |-> Ticker,
              direction |-> "Incoming", amount |-> <<tx.enc_amount_using_rcvr>>],
         validated |-> ~failed,
         error |-> IF failed THEN "library" ELSE "none"]

\* Mutant of ValidateTransaction: the Validated file is saved before the
\* proofs are verified.
ValidateTransaction_SavesBeforeVerify(accounts, tx, pending_balance, io) ==
    LET loaded == /\ io = "ok"
                  /\ GetUserTickerFrom(tx.rcvr_account_id) # <<>>
                  /\ accounts[UserOf(tx.sndr_account_id)] # <<>>
                  /\ accounts[UserOf(tx.rcvr_account_id)] # <<>>
        verified == loaded /\ VerifyTransaction(tx, accounts[UserOf(tx.sndr_account_id)][1],
                                                accounts[UserOf(tx.rcvr_account_id)][1],
                                                pending_balance)
    IN  IF verified
        THEN [sender_result |->
                  [user |-> UserOf(tx.sndr_account_id), ticker |-> Ticker,
                   direction |-> "Outgoing", amount |-> <<tx.enc_amount_using_sndr>>],
              receiver_result |->
                  [user |-> UserOf(tx.rcvr_account_id), ticker |-> Ticker,
                   direction |-> "Incoming", amount |-> <<tx.enc_amount_using_rcvr>>],
              validated |-> TRUE, error |-> "none"]
        ELSE [sender_result |-> ErrorResult(UserOf(tx.sndr_account_id), Ticker),
              receiver_result |-> ErrorResult(UserOf(tx.rcvr_account_id), Ticker),
              validated |-> loaded, error |-> "library"]

\* validate_transaction: the two results, whether the Validated file was
\* saved, and the error logged ("none" when there is none).
ValidateTransaction(accounts, tx, pending_balance, io) ==
    LET s == GetUserTickerFrom(tx.sndr_account_id)
        r == GetUserTickerFrom(tx.rcvr_account_id)
        na == [sender_result |-> ErrorResult(NA, NA),
               receiver_result |-> ErrorResult(NA, NA),
               validated |-> FALSE, error |-> "lookup"]
    IN  IF s = <<>> THEN na
        ELSE IF r = <<>> THEN na
        ELSE LET sender == s[1]
                 receiver == r[1]
                 ticker == r[2]
                 err(e) == [sender_result |-> ErrorResult(sender, ticker),
                            receiver_result |-> ErrorResult(receiver, ticker),
                            validated |-> FALSE, error |-> e]
             IN  IF io = "load_err" THEN err("io")
                 ELSE IF accounts[sender] = <<>> THEN err("missing")
                 ELSE IF accounts[receiver] = <<>> THEN err("missing")
                 ELSE IF ~VerifyTransaction(tx, accounts[sender][1],
                                            accounts[receiver][1], pending_balance)
                      THEN err("library")
                 ELSE IF io = "save_err" THEN err("io")
                 ELSE [sender_result |->
                           [user |-> sender, ticker |-> ticker,
                            direction |-> "Outgoing",
                            amount |-> <<tx.enc_amount_using_sndr>>],
                       receiver_result |->
                           [user |-> receiver, ticker |-> ticker,
                            direction |-> "Incoming",
                            amount |-> <<tx.enc_amount_using_rcvr>>],
                       validated |-> TRUE, error |-> "none"]

\* Mutant of SaveValidatedAccount: the public account is saved whatever
\* AccountValidator.verify returned.
SaveValidatedAccount_Unverified(accounts, account_tx, error) ==
    [accounts EXCEPT ![UserOf(account_tx.account_id)] =
        <<NewPubAccount(account_tx.account_id)>>]

\* Mutant of SaveValidatedAccount: the public account is saved although the
\* proofs of the account creation did not verify.
SaveValidatedAccount_OnLibraryError(accounts, account_tx, error) ==
    IF error \in {"none", "library"}
    THEN [accounts EXCEPT ![UserOf(account_tx.account_id)] =
             <<NewPubAccount(account_tx.account_id)>>]
    ELSE accounts

\* The public accounts after validate_account returned error ("none" for
\* Ok): lines 354-362 save the account of the transaction on success only.
SaveValidatedAccount(accounts, account_tx, error) ==
    IF error = "none"
    THEN [accounts EXCEPT ![UserOf(account_tx.account_id)] =
             <<NewPubAccount(account_tx.account_id)>>]
    ELSE accounts

\* Mutant of ValidateAccount: the result of AccountValidator.verify is
\* ignored.
ValidateAccount_IgnoresVerify(account_tx, io) ==
    IF GetUserTickerFrom(account_tx.account_id) = <<>> THEN "lookup"
    ELSE IF io # "ok" THEN "io"
    ELSE "none"

\* validate_account: "none" for Ok (the public account is saved), else the
\* error returned.
ValidateAccount(account_tx, io) ==
    IF GetUserTickerFrom(account_tx.account_id) = <<>> THEN "lookup"
    ELSE IF io = "load_err" THEN "io"
    ELSE IF ~VerifyAccount(account_tx) THEN "library"
    ELSE IF io = "save_err" THEN "io"
    ELSE "none"

(***************************************************************************)
(* Balance folding.                                                        *)
(***************************************************************************)
RECURSIVE AccountsFrom(_, _)
AccountsFrom(rs, i) ==
    IF i > Len(rs) THEN {}
    ELSE (IF rs[i].user # NA THEN {<<rs[i].user, rs[i].ticker>>} ELSE {})
         \cup AccountsFrom(rs, i + 1)

\* The distinct (user, ticker) of the results whose user is not "n/a".
AccountsOf(rs) == AccountsFrom(rs, 1)

\* Mutant of ApplyResult: an Outgoing amount is added like an Incoming one.
ApplyResult_AddsOutgoing(new_balance, result, user, ticker) ==
    IF result.user = user /\ result.ticker = ticker /\ result.amount # <<>>
    THEN CAdd(new_balance, result.amount[1])
    ELSE new_balance

\* One result applied to new_balance while folding the account (user, ticker).
ApplyResult(new_balance, result, user, ticker) ==
    IF result.user = user /\ result.ticker = ticker
    THEN IF result.direction = "Incoming"
         THEN IF result.amount # <<>>
              THEN CAdd(new_balance, result.amount[1])
              ELSE new_balance
         ELSE IF result.amount # <<>>
              THEN CSub(new_balance, result.amount[1])
              ELSE new_balance
    ELSE new_balance

RECURSIVE FoldResults(_, _, _, _, _)
\* The results numbered i and above applied in order.
FoldResults(new_balance, rs, i, user, ticker) ==
    IF i > Len(rs) THEN new_balance
    ELSE FoldResults(ApplyResult(new_balance, rs[i], user, ticker), rs, i + 1, user, ticker)

\* Mutant of FoldedAccount: the memo's counter is advanced.
FoldedAccount_AdvancesCounter(pub_account, rs, user, ticker) ==
    [id |-> pub_account.id,
     enc_asset_id |-> pub_account.enc_asset_id,
     enc_balance |-> FoldResults(pub_account.enc_balance, rs, 1, user, ticker),
     memo |-> [pub_account.memo EXCEPT !.last_processed_tx_counter = @ + 1]]

\* The PubAccount saved for (user, ticker): only enc_balance is new.
FoldedAccount(pub_account, rs, user, ticker) ==
    [id |-> pub_account.id,
     enc_asset_id |-> pub_account.enc_asset_id,
     enc_balance |-> FoldResults(pub_account.enc_balance, rs, 1, user, ticker),
     memo |-> pub_account.memo]

(***************************************************************************)
(* State.                                                                   *)
(*   acct           the public-account files: user -> <<>> or <<PubAccount>> *)
(*   txs            the transaction files, by tx_id                          *)
(*   lastValidated  the LAST_VALIDATED_TX_ID file: <<>> or <<tx_id>>         *)
(*   pc             "idle", "dispatch" (the loop over the ready              *)
(*                  transactions) or "fold" (the loop over the accounts)     *)
(*   ret            what the latest run returned: "none" (no run, or the     *)
(*                  store changed since), "Ok", or the place of its Err      *)
(*   batch, idx     all_unverified_and_ready and the loop's position in it   *)
(*   results        the run's ValidationResults                              *)
(*   last_tx_id     the run's last_tx_id                                     *)
(*   foldTodo       the accounts the folding loop has yet to visit           *)
(*   folded         user -> <<>> or <<the PubAccount the folding loop        *)
(*                  loaded for it in this run>>                              *)
(*   errlog         the run's "Error in validation" log lines of the         *)
(*                  dispatch loop: <<tx_id, error>>, error being "lookup",   *)
(*                  "missing" (no such account file), "io" (a transient      *)
(*                  store failure) or "library" (a proof does not verify)    *)
(*   snap           <<>>, or <<the store as the previous run left it>> when  *)
(*                  the run started right after a run that returned Ok and   *)
(*                  logged no error                                          *)
(*   start          <<>>, or <<acct, lastValidated>> as they were when the   *)
(*                  latest run started                                       *)
(***************************************************************************)
VARIABLES acct, txs, lastValidated, pc, ret, batch, idx, results, last_tx_id,
          foldTodo, folded, errlog, snap, start

(***************************************************************************)
(* State of one session of the refreshment proof.                          *)
(*   rpc       "idle" (no session), "statement", "committed", "challenged",*)
(*             "responded" or "verified"                                   *)
(*   stmt      the secret key and the two ciphertexts of the statement    *)
(*   session   the prover (secret key, rand_commitment u), the initial     *)
(*             message, the challenge and the final response at hand       *)
(*   verdict   what verify returned, "none" before                         *)
(*   origin    how the transcript at hand was made: "interactive" (the     *)
(*             three moves, a dealer drawing the challenge),               *)
(*             "single_property" (the non-interactive driver),             *)
(*             "bad_initial_message", "bad_final_response" (an honest      *)
(*             transcript with that part replaced) or "forged"             *)
(*   first     <<>>, or the challenge and response of the transcript       *)
(*             accepted before the session was rewound                     *)
(***************************************************************************)
VARIABLES rpc, stmt, session, verdict, origin, first

rvars == <<rpc, stmt, session, verdict, origin, first>>

(***************************************************************************)
(* The state of a batch proof:                                             *)
(*   bpc               where the batch is: "provers", "prove_absorb",      *)
(*                     "prove_respond", "proved", "prove_failed", "verify",*)
(*                     "verify_absorb", "verify_loop", "verified"          *)
(*   provers           the provers, in the order prove_multiple is given   *)
(*                     them, each with the nonce its generator draws       *)
(*   order             verifiers[i] is the verifier of provers[order[i]]   *)
(*   verifiers, initial_messages, final_responses                          *)
(*                     the arguments of verify_multiple                    *)
(*   transcript        the messages the current call's transcript absorbed *)
(*   challenges        the challenges the current call squeezed            *)
(*   calls             the provers (verifiers) whose apply_challenge       *)
(*                     (verify) the current call has called                *)
(*   outcome           what the last call returned: "Ok" or its error      *)
(*   delivery          what became of the proof before verify_multiple     *)
(*   proof             what prove_multiple returned, and its challenge     *)
(***************************************************************************)
VARIABLES bpc, provers, order, verifiers, initial_messages, final_responses,
          transcript, challenges, calls, outcome, delivery, proof

bvars == <<bpc, provers, order, verifiers, initial_messages, final_responses,
           transcript, challenges, calls, outcome, delivery, proof>>

NoBatch ==
    /\ bpc = "idle"
    /\ provers = <<>>
    /\ order = <<>>
    /\ verifiers = <<>>
    /\ initial_messages = <<>>
    /\ final_responses = <<>>
    /\ transcript = <<>>
    /\ challenges = <<>>
    /\ calls = <<>>
    /\ outcome = "none"
    /\ delivery = "none"
    /\ proof = <<>>

NoProof ==
    /\ rpc = "idle"
    /\ stmt = <<>>
    /\ session = <<>>
    /\ verdict = "none"
    /\ origin = "none"
    /\ first = <<>>

store == <<acct, txs, lastValidated>>

vars == <<acct, txs, lastValidated, pc, ret, batch, idx, results, last_tx_id,
          foldTodo, folded, errlog, snap, start>>

\* The accounts the store may hold at the start: validated, with a zero
\* balance or, for account 1, with the balance an earlier validated issuance
\* left.
InitialAccounts(a) ==
    {<<NewPubAccount(a)>>}
    \cup (IF a = 1
          THEN {<<[NewPubAccount(a) EXCEPT
                     !.enc_balance = Encrypt(PubKey(SecretKey(a)), IssuedAmount, a)]>>}
          ELSE {})

NoneFolded == [u \in Users |-> <<>>]

Init ==
    /\ acct \in [Users -> {<<>>} \cup UNION {InitialAccounts(a) : a \in AccountIds}]
    /\ \A u \in Users : acct[u] # <<>> => acct[u] \in InitialAccounts(IdOf(u))
    /\ txs = <<>>
    /\ lastValidated = <<>>
    /\ pc = "idle"
    /\ ret = "none"
    /\ batch = <<>>
    /\ idx = 1
    /\ results = <<>>
    /\ last_tx_id = 0 - 1
    /\ foldTodo = {}
    /\ folded = NoneFolded
    /\ errlog = {}
    /\ snap = <<>>
    /\ start = <<>>
    /\ NoProof
    /\ NoBatch

\* A new transaction file arrives while no run is in progress.
AddTx ==
    /\ pc = "idle"
    /\ Len(txs) < MaxTx
    /\ \E tx \in NewTxs(Len(txs) + 1) : txs' = Append(txs, tx)
    /\ ret' = "none"
    /\ batch' = <<>>
    /\ idx' = 1
    /\ results' = <<>>
    /\ last_tx_id' = 0 - 1
    /\ foldTodo' = {}
    /\ folded' = NoneFolded
    /\ errlog' = {}
    /\ snap' = <<>>
    /\ start' = <<>>
    /\ UNCHANGED <<rvars, bvars>>
    /\ UNCHANGED <<acct, lastValidated, pc>>

\* validate_all_pending, lines 39-42.
StartRun ==
    /\ pc = "idle"
    /\ batch' = LoadAllUnverifiedAndReady(txs)
    /\ idx' = 1
    /\ last_tx_id' = 0 - 1
    /\ results' = <<>>
    /\ pc' = "dispatch"
    /\ ret' = "none"
    /\ foldTodo' = {}
    /\ folded' = NoneFolded
    /\ errlog' = {}
    /\ snap' = IF ret = "Ok" /\ errlog = {} THEN <<store>> ELSE <<>>
    /\ start' = <<acct, lastValidated>>
    /\ UNCHANGED <<rvars, bvars>>
    /\ UNCHANGED <<acct, txs, lastValidated>>

\* line 39, when load_all_unverified_and_ready returns the error of a file
\* that fails to parse or to load.
StartRunAbort ==
    /\ pc = "idle"
    /\ Len(txs) > 0
    /\ batch' = <<>>
    /\ idx' = 1
    /\ last_tx_id' = 0 - 1
    /\ results' = <<>>
    /\ foldTodo' = {}
    /\ folded' = NoneFolded
    /\ errlog' = {}
    /\ snap' = <<>>
    /\ start' = <<acct, lastValidated>>
    /\ pc' = "idle"
    /\ ret' = "ErrLoadAll"
    /\ UNCHANGED <<rvars, bvars>>
    /\ UNCHANGED <<acct, txs, lastValidated>>

Dispatching(kind) ==
    /\ pc = "dispatch"
    /\ idx <= Len(batch)
    /\ txs[batch[idx]].kind = kind

\* The run returns Err(place) from where it is.
Abort(place) ==
    /\ pc' = "idle"
    /\ ret' = place

\* lines 46-55.
DispatchIssue ==
    /\ Dispatching("IssueJustify")
    /\ \E io \in IoChoices(errlog) :
        LET tx_id == batch[idx]
            out == ValidateAssetIssuance(acct, txs[tx_id], io)
        IN  /\ txs' = IF out.validated
                      THEN [txs EXCEPT ![tx_id].state = "Validated"]
                      ELSE txs
            /\ results' = Append(results, out.result)
            /\ errlog' = IF out.error = "none" THEN errlog
                          ELSE errlog \cup {<<tx_id, out.error>>}
            /\ last_tx_id' = Max(last_tx_id, tx_id)
    /\ idx' = idx + 1
    /\ UNCHANGED <<rvars, bvars>>
    /\ UNCHANGED <<acct, lastValidated, pc, ret, batch, foldTodo, folded, snap, start>>

\* Whether lines 61-93 return an error: the sender's lookup, the load of its
\* account, the ordering state or the pending balance fails ("load_err"),
\* or the debug_decrypt of line 92, evaluated as an argument of debug! when
\* that log level is enabled, fails ("decrypt_err").
TransferPreloadFails(accounts, tx, pre) ==
    \/ GetUserTickerFrom(tx.sndr_account_id) = <<>>
    \/ accounts[UserOf(tx.sndr_account_id)] = <<>>
    \/ pre # "ok"

\* The error lines 61-93 return: the errors of lines 61-88 come before the
\* one of line 92.
TransferPreloadError(accounts, tx, pre) ==
    IF TransferPreloadFails(accounts, tx, "ok") \/ pre = "load_err"
    THEN "ErrTransferPreload"
    ELSE "ErrDebugDecrypt"

\* As DispatchTransfer, had the pending balance been computed from the
\* sender's balance with the results of the run so far folded in.
DispatchTransfer_FoldsFirst ==
    /\ Dispatching("TransferJustify")
    /\ ~TransferPreloadFails(acct, txs[batch[idx]], "ok")
    /\ \E io \in IoChoices(errlog) :
        LET tx_id == batch[idx]
            tx == txs[tx_id]
            sender_account == FoldedAccount(acct[UserOf(tx.sndr_account_id)][1], results,
                                            UserOf(tx.sndr_account_id), Ticker)
            pending_balance == ComputeEncPendingBalance(txs, tx_id, sender_account)
            out == ValidateTransaction(acct, tx, pending_balance, io)
        IN  /\ txs' = IF out.validated
                      THEN [txs EXCEPT ![tx_id].state = "Validated"]
                      ELSE txs
            /\ results' = results \o <<out.sender_result, out.receiver_result>>
            /\ errlog' = IF out.error = "none" THEN errlog
                          ELSE errlog \cup {<<tx_id, out.error>>}
            /\ last_tx_id' = Max(last_tx_id, tx_id)
    /\ idx' = idx + 1
    /\ UNCHANGED <<rvars, bvars>>
    /\ UNCHANGED <<acct, lastValidated, pc, ret, batch, foldTodo, folded, snap, start>>

\* lines 56-99, when none of the `?` of lines 61-93 returns.
DispatchTransfer ==
    /\ Dispatching("TransferJustify")
    /\ ~TransferPreloadFails(acct, txs[batch[idx]], "ok")
    /\ \E io \in IoChoices(errlog) :
        LET tx_id == batch[idx]
            tx == txs[tx_id]
            sender_account == acct[UserOf(tx.sndr_account_id)][1]
            pending_balance == ComputeEncPendingBalance(txs, tx_id, sender_account)
            out == ValidateTransaction(acct, tx, pending_balance, io)
        IN  /\ txs' = IF out.validated
                      THEN [txs EXCEPT ![tx_id].state = "Validated"]
                      ELSE txs
            /\ results' = results \o <<out.sender_result, out.receiver_result>>
            /\ errlog' = IF out.error = "none" THEN errlog
                          ELSE errlog \cup {<<tx_id, out.error>>}
            /\ last_tx_id' = Max(last_tx_id, tx_id)
    /\ idx' = idx + 1
    /\ UNCHANGED <<rvars, bvars>>
    /\ UNCHANGED <<acct, lastValidated, pc, ret, batch, foldTodo, folded, snap, start>>

\* lines 56-93, when one of the `?` returns the error.
DispatchTransferAbort ==
    /\ Dispatching("TransferJustify")
    /\ \E pre \in {"ok", "load_err", "decrypt_err"} :
        /\ TransferPreloadFails(acct, txs[batch[idx]], pre)
        /\ Abort(TransferPreloadError(acct, txs[batch[idx]], pre))
    /\ UNCHANGED <<rvars, bvars>>
    /\ UNCHANGED <<acct, txs, lastValidated, batch, idx, results, last_tx_id,
                   foldTodo, folded, errlog, snap, start>>

\* lines 100-109.
DispatchAccount ==
    /\ Dispatching("Account")
    /\ \E io \in IoChoices(errlog) :
        LET tx_id == batch[idx]
            account_tx == txs[tx_id]
            error == ValidateAccount(account_tx, io)
        IN  /\ acct' = SaveValidatedAccount(acct, account_tx, error)
            /\ errlog' = IF error = "none" THEN errlog
                          ELSE errlog \cup {<<tx_id, error>>}
            /\ last_tx_id' = Max(last_tx_id, tx_id)
    /\ idx' = idx + 1
    /\ UNCHANGED <<rvars, bvars>>
    /\ UNCHANGED <<txs, lastValidated, pc, ret, batch, results, foldTodo, folded, snap, start>>

\* lines 110-113: a ready transaction of another kind.
DispatchOther ==
    /\ Dispatching("Invalid")
    /\ Abort("TransactionIsNotReadyForValidation")
    /\ UNCHANGED <<rvars, bvars>>
    /\ UNCHANGED <<acct, txs, lastValidated, batch, idx, results, last_tx_id,
                   foldTodo, folded, errlog, snap, start>>

\* As CollectAccounts, had the save of lines 197-204 been placed before the
\* folding loop.
CollectAccounts_SavesLast ==
    /\ pc = "dispatch"
    /\ idx > Len(batch)
    /\ foldTodo' = AccountsOf(results)
    /\ lastValidated' = <<last_tx_id>>
    /\ pc' = "fold"
    /\ UNCHANGED <<rvars, bvars>>
    /\ UNCHANGED <<acct, txs, ret, batch, idx, results, last_tx_id,
                   folded, errlog, snap, start>>

\* lines 118-133.
CollectAccounts ==
    /\ pc = "dispatch"
    /\ idx > Len(batch)
    /\ foldTodo' = AccountsOf(results)
    /\ pc' = "fold"
    /\ UNCHANGED <<rvars, bvars>>
    /\ UNCHANGED <<acct, txs, lastValidated, ret, batch, idx, results, last_tx_id,
                   folded, errlog, snap, start>>

\* lines 135-195, one iteration that completes: load, fold, save.
FoldAccount ==
    /\ pc = "fold"
    /\ \E ut \in foldTodo :
        LET user == ut[1]
            ticker == ut[2]
        IN  /\ acct[user] # <<>>
            /\ acct' = [acct EXCEPT ![user] =
                            <<FoldedAccount(acct[user][1], results, user, ticker)>>]
            /\ folded' = [folded EXCEPT ![user] = acct[user]]
            /\ foldTodo' = foldTodo \ {ut}
    /\ UNCHANGED <<rvars, bvars>>
    /\ UNCHANGED <<txs, lastValidated, pc, ret, batch, idx, results, last_tx_id,
                   errlog, snap, start>>

\* lines 136-141, when the load of the account returns the error.
FoldLoadAbort ==
    /\ pc = "fold"
    /\ \E ut \in foldTodo : acct[ut[1]] = <<>>
    /\ Abort("ErrFoldLoad")
    /\ UNCHANGED <<rvars, bvars>>
    /\ UNCHANGED <<acct, txs, lastValidated, batch, idx, results, last_tx_id,
                   foldTodo, folded, errlog, snap, start>>

\* lines 143-148, 154-159 and 168-173, when a debug_decrypt evaluated as an
\* argument of debug! returns the error: the account was loaded and is not
\* saved.
FoldDecryptAbort ==
    /\ pc = "fold"
    /\ \E ut \in foldTodo : acct[ut[1]] # <<>>
    /\ Abort("ErrDebugDecrypt")
    /\ UNCHANGED <<rvars, bvars>>
    /\ UNCHANGED <<acct, txs, lastValidated, batch, idx, results, last_tx_id,
                   foldTodo, folded, errlog, snap, start>>

\* lines 183-194, when the save of the account returns the error.
FoldSaveAbort ==
    /\ pc = "fold"
    /\ \E ut \in foldTodo : acct[ut[1]] # <<>>
    /\ Abort("ErrFoldSave")
    /\ UNCHANGED <<rvars, bvars>>
    /\ UNCHANGED <<acct, txs, lastValidated, batch, idx, results, last_tx_id,
                   foldTodo, folded, errlog, snap, start>>

\* lines 197-204.
SaveLast ==
    /\ pc = "fold"
    /\ foldTodo = {}
    /\ lastValidated' = <<last_tx_id>>
    /\ pc' = "idle"
    /\ ret' = "Ok"
    /\ UNCHANGED <<rvars, bvars>>
    /\ UNCHANGED <<acct, txs, batch, idx, results, last_tx_id, foldTodo, folded,
                   errlog, snap, start>>

\* lines 197-203, when save_to_file returns the error.
SaveLastAbort ==
    /\ pc = "fold"
    /\ foldTodo = {}
    /\ Abort("ErrSaveLast")
    /\ UNCHANGED <<rvars, bvars>>
    /\ UNCHANGED <<acct, txs, lastValidated, batch, idx, results, last_tx_id,
                   foldTodo, folded, errlog, snap, start>>

Next ==
    \/ AddTx
    \/ StartRun
    \/ StartRunAbort
    \/ DispatchIssue
    \/ DispatchTransfer
    \/ DispatchTransferAbort
    \/ DispatchAccount
    \/ DispatchOther
    \/ CollectAccounts
    \/ FoldAccount
    \/ FoldLoadAbort
    \/ FoldDecryptAbort
    \/ FoldSaveAbort
    \/ SaveLast
    \/ SaveLastAbort

Spec == Init /\ [][Next]_<<vars, rvars, bvars>>

(***************************************************************************)
(* A session of the refreshment proof: the statement is drawn at the       *)
(* start; the prover, the dealer and the verifier move in turn; the        *)
(* environment may replace a part of an honest transcript, forge a         *)
(* transcript, or rewind the session after an accepted transcript and      *)
(* answer another challenge on the same initial message.                   *)
(***************************************************************************)
\* The points the environment puts in place of a.
ForgedPoints == {<<g, h>> : g \in 0..1, h \in Scalars}

\* The responses the environment puts in place of z.
Responses == 0..(MaxScalar * MaxScalar + MaxScalar)

\* The statements: ciphertext1 encrypts SecretValue; ciphertext2 encrypts the
\* same value or the next one, or is a refreshment of ciphertext1.
Statements ==
    UNION {
        LET c1 == Encrypt(PubKey(s), SecretValue, r1)
        IN  {[secret_key |-> s, ciphertext1 |-> c1, ciphertext2 |-> c2] :
                c2 \in {Encrypt(PubKey(s), v2, r2) :
                            v2 \in {SecretValue, SecretValue + 1}, r2 \in Scalars}
                        \cup {Refresh(s, c1, r)[1] : r \in Scalars}}
        : s \in Scalars, r1 \in Scalars}

InitRefresh ==
    /\ acct = [u \in Users |-> <<>>]
    /\ txs = <<>>
    /\ lastValidated = <<>>
    /\ pc = "idle"
    /\ ret = "none"
    /\ batch = <<>>
    /\ idx = 1
    /\ results = <<>>
    /\ last_tx_id = 0 - 1
    /\ foldTodo = {}
    /\ folded = NoneFolded
    /\ errlog = {}
    /\ snap = <<>>
    /\ start = <<>>
    /\ rpc = "statement"
    /\ stmt \in Statements
    /\ session = <<>>
    /\ verdict = "none"
    /\ origin = "none"
    /\ first = <<>>
    /\ NoBatch

ProverOf(st) == ProverAwaitingChallengeNew(st.secret_key, st.ciphertext1, st.ciphertext2)

VerifierOf(st) == VerifierNew(PubKey(st.secret_key), st.ciphertext1, st.ciphertext2)

\* The prover's first move.
ProverGeneratesInitialMessage ==
    /\ rpc = "statement"
    /\ \E rng \in Scalars :
        LET rand_commitment == CreateTranscriptRng(ProverOf(stmt), rng, NewTranscript)
            out == GenerateInitialMessage(ProverOf(stmt), rand_commitment)
        IN  session' = [prover |-> out.prover, initial_message |-> out.initial_message,
                        challenge |-> 0, final_response |-> 0]
    /\ rpc' = "committed"
    /\ origin' = "interactive"
    /\ UNCHANGED <<stmt, verdict, first>>
    /\ UNCHANGED <<vars, bvars>>

\* The dealer draws the challenge.
DealerChallenge ==
    /\ rpc = "committed"
    /\ \E c \in Scalars : session' = [session EXCEPT !.challenge = c]
    /\ rpc' = "challenged"
    /\ UNCHANGED <<stmt, verdict, origin, first>>
    /\ UNCHANGED <<vars, bvars>>

\* The prover's final response.
ProverAppliesChallenge ==
    /\ rpc = "challenged"
    /\ session' = [session EXCEPT
                       !.final_response = ApplyChallenge(session.prover, session.challenge)]
    /\ rpc' = "responded"
    /\ UNCHANGED <<stmt, verdict, origin, first>>
    /\ UNCHANGED <<vars, bvars>>

\* The non-interactive prover.
ProveSingleProperty ==
    /\ rpc = "statement"
    /\ \E rand_commitment \in Scalars :
        LET out == SinglePropertyProver(ProverOf(stmt), rand_commitment)
        IN  session' = [prover |-> [secret_key |-> stmt.secret_key, u |-> rand_commitment],
                        initial_message |-> out.initial_message,
                        challenge |-> ScalarChallenge(out.initial_message),
                        final_response |-> out.final_response]
    /\ rpc' = "responded"
    /\ origin' = "single_property"
    /\ UNCHANGED <<stmt, verdict, first>>
    /\ UNCHANGED <<vars, bvars>>

\* The initial message of an honest transcript is replaced: a by another
\* point, or the whole message by the default one.
BadInitialMessage ==
    /\ rpc = "responded"
    /\ origin = "interactive"
    /\ first = <<>>
    /\ \E m \in {[a |-> p, b |-> session.initial_message.b] : p \in ForgedPoints}
                \cup {DefaultInitialMessage} :
        /\ m.a # session.initial_message.a
        /\ session' = [session EXCEPT !.initial_message = m]
    /\ origin' = "bad_initial_message"
    /\ UNCHANGED <<rpc, stmt, verdict, first>>
    /\ UNCHANGED <<vars, bvars>>

\* The final response of an honest transcript is replaced by another scalar.
BadFinalResponse ==
    /\ rpc = "responded"
    /\ origin = "interactive"
    /\ first = <<>>
    /\ \E z \in Responses \ {session.final_response} :
        session' = [session EXCEPT !.final_response = z]
    /\ origin' = "bad_final_response"
    /\ UNCHANGED <<rpc, stmt, verdict, first>>
    /\ UNCHANGED <<vars, bvars>>

\* A transcript made without the prover.
Forge ==
    /\ rpc = "statement"
    /\ \E a \in ForgedPoints, k \in Scalars, c \in Scalars, z \in Scalars :
        session' = [prover |-> [secret_key |-> 0, u |-> 0],
                    initial_message |-> [a |-> a, b |-> SMul(k, H)],
                    challenge |-> c, final_response |-> z]
    /\ rpc' = "responded"
    /\ origin' = "forged"
    /\ UNCHANGED <<stmt, verdict, first>>
    /\ UNCHANGED <<vars, bvars>>

\* CipherTextRefreshmentVerifier::verify with the dealer's challenge.
VerifierVerifies ==
    /\ rpc = "responded"
    /\ origin # "single_property"
    /\ verdict' = Verify(VerifierOf(stmt), session.challenge,
                         session.initial_message, session.final_response)
    /\ rpc' = "verified"
    /\ UNCHANGED <<stmt, session, origin, first>>
    /\ UNCHANGED <<vars, bvars>>

\* The non-interactive verifier.
VerifySingleProperty ==
    /\ rpc = "responded"
    /\ origin = "single_property"
    /\ verdict' = SinglePropertyVerifier(VerifierOf(stmt), session.initial_message,
                                         session.final_response)
    /\ rpc' = "verified"
    /\ UNCHANGED <<stmt, session, origin, first>>
    /\ UNCHANGED <<vars, bvars>>

\* After an accepted transcript, another challenge and another response on
\* the same initial message.
Rewind ==
    /\ rpc = "verified"
    /\ verdict = "Ok"
    /\ first = <<>>
    /\ origin # "single_property"
    /\ first' = <<[challenge |-> session.challenge,
                   final_response |-> session.final_response]>>
    /\ \E c \in Scalars \ {session.challenge}, z \in Responses :
        session' = [session EXCEPT !.challenge = c, !.final_response = z]
    /\ rpc' = "responded"
    /\ verdict' = "none"
    /\ UNCHANGED <<stmt, origin>>
    /\ UNCHANGED <<vars, bvars>>

NextRefresh ==
    \/ ProverGeneratesInitialMessage
    \/ DealerChallenge
    \/ ProverAppliesChallenge
    \/ ProveSingleProperty
    \/ BadInitialMessage
    \/ BadFinalResponse
    \/ Forge
    \/ VerifierVerifies
    \/ VerifySingleProperty
    \/ Rewind

SpecRefresh == InitRefresh /\ [][NextRefresh]_<<vars, rvars, bvars>>

(***************************************************************************)
(* A batch proof: the provers and the order of the verifiers are drawn at  *)
(* the start; prove_multiple_encryption_properties runs step by step; the  *)
(* environment hands the proof to verify_multiple_encryption_properties as *)
(* it is, or with one initial message or one final response replaced, or  *)
(* with a list shortened.                                                  *)
(***************************************************************************)
\* The largest number of provers of a batch.
MaxBatch == 2

\* The provers of true refreshment statements: ciphertext2 encrypts the
\* value of ciphertext1 with another blinding or with the same one.
RefreshmentProvers ==
    {[secret_key |-> s,
      ciphertext1 |-> Encrypt(PubKey(s), SecretValue, 1),
      ciphertext2 |-> Encrypt(PubKey(s), SecretValue, r2),
      rand_commitment |-> u,
      encodes |-> TRUE] : s \in 0..1, r2 \in 0..2, u \in 0..1}

\* A prover whose initial message update_transcript refuses.
UnencodableProver ==
    [secret_key |-> 1,
     ciphertext1 |-> Encrypt(PubKey(1), SecretValue, 1),
     ciphertext2 |-> Encrypt(PubKey(1), SecretValue, 0),
     rand_commitment |-> 1,
     encodes |-> FALSE]

BatchProvers == RefreshmentProvers \cup {UnencodableProver}

Batches == UNION {[1..n -> BatchProvers] : n \in 0..MaxBatch}

Orders(n) ==
    {f \in [1..n -> 1..n] : \A i, j \in 1..n : f[i] = f[j] => i = j}

InOrder(n) == [i \in 1..n |-> i]

\* The verifier of a prover's statement.
VerifierFor(prover) ==
    VerifierNew(PubKey(prover.secret_key), prover.ciphertext1, prover.ciphertext2)

\* The points and the scalars the environment puts in place of a part of a
\* proof.
BatchPoints == {<<0, 0>>, <<0, 1>>, <<1, 0>>, InvalidPoint}

BatchResponses == 0..3

BadMessages(m) ==
    ({[a |-> p, b |-> m.b] : p \in BatchPoints}
        \cup {[a |-> m.a, b |-> p] : p \in BatchPoints}
        \cup {DefaultInitialMessage}) \ {m}

NoRun ==
    /\ acct = [u \in Users |-> <<>>]
    /\ txs = <<>>
    /\ lastValidated = <<>>
    /\ pc = "idle"
    /\ ret = "none"
    /\ batch = <<>>
    /\ idx = 1
    /\ results = <<>>
    /\ last_tx_id = 0 - 1
    /\ foldTodo = {}
    /\ folded = NoneFolded
    /\ errlog = {}
    /\ snap = <<>>
    /\ start = <<>>

InitBatch ==
    /\ NoRun
    /\ NoProof
    /\ bpc = "provers"
    /\ provers \in Batches
    /\ order \in Orders(Len(provers))
    /\ verifiers = [i \in 1..Len(provers) |-> VerifierFor(provers[order[i]])]
    /\ initial_messages = <<>>
    /\ final_responses = <<>>
    /\ transcript = <<>>
    /\ challenges = <<>>
    /\ calls = <<>>
    /\ outcome = "none"
    /\ delivery = "none"
    /\ proof = <<>>

\* prove_multiple_encryption_properties, lines 200-206.
GenerateAll ==
    /\ bpc = "provers"
    /\ initial_messages' = GenerateInitialMessages(provers)
    /\ bpc' = "prove_absorb"
    /\ UNCHANGED <<provers, order, verifiers, final_responses, transcript,
                   challenges, calls, outcome, delivery, proof>>
    /\ UNCHANGED <<vars, rvars>>

\* lines 209-212: update_transcript of the next initial message; its error
\* is the function's result.
ProveAbsorb ==
    /\ bpc = "prove_absorb"
    /\ Len(transcript) < Len(initial_messages)
    /\ LET m == initial_messages[Len(transcript) + 1]
       IN  IF UpdateTranscriptFails(m)
           THEN /\ outcome' = "InvalidEncoding"
                /\ bpc' = "prove_failed"
                /\ UNCHANGED transcript
           ELSE /\ transcript' = Append(transcript, m)
                /\ UNCHANGED <<bpc, outcome>>
    /\ UNCHANGED <<provers, order, verifiers, initial_messages, final_responses,
                   challenges, calls, delivery, proof>>
    /\ UNCHANGED <<vars, rvars>>

\* line 214.
ProveChallenge ==
    /\ bpc = "prove_absorb"
    /\ Len(transcript) = Len(initial_messages)
    /\ challenges' = Append(challenges, TranscriptChallenge(transcript))
    /\ bpc' = "prove_respond"
    /\ UNCHANGED <<provers, order, verifiers, initial_messages, final_responses,
                   transcript, calls, outcome, delivery, proof>>
    /\ UNCHANGED <<vars, rvars>>

\* lines 216-221.
ProveRespond ==
    /\ bpc = "prove_respond"
    /\ final_responses' = ApplyChallenges(provers, challenges[Len(challenges)])
    /\ calls' = InOrder(Len(provers))
    /\ outcome' = "Ok"
    /\ proof' = <<[initial_messages |-> initial_messages,
                   final_responses |-> final_responses',
                   challenge |-> challenges[Len(challenges)]]>>
    /\ bpc' = "proved"
    /\ UNCHANGED <<provers, order, verifiers, initial_messages, transcript,
                   challenges, delivery>>
    /\ UNCHANGED <<vars, rvars>>

\* verify_multiple_encryption_properties is called: a new transcript.
Called(kind) ==
    /\ bpc = "proved"
    /\ bpc' = "verify"
    /\ transcript' = <<>>
    /\ challenges' = <<>>
    /\ calls' = <<>>
    /\ outcome' = "none"
    /\ delivery' = kind
    /\ UNCHANGED <<provers, order, proof>>
    /\ UNCHANGED <<vars, rvars>>

\* The proof is handed over as it is.
Deliver ==
    /\ Called(IF order = InOrder(Len(provers)) THEN "honest" ELSE "permuted")
    /\ UNCHANGED <<verifiers, initial_messages, final_responses>>

\* One initial message is replaced by another value.
DeliverBadMessage ==
    /\ order = InOrder(Len(provers))
    /\ Called("bad_message")
    /\ \E j \in 1..Len(initial_messages) :
        \E m \in BadMessages(initial_messages[j]) :
            initial_messages' = [initial_messages EXCEPT ![j] = m]
    /\ UNCHANGED <<verifiers, final_responses>>

\* One final response is replaced by another scalar.
DeliverBadResponse ==
    /\ order = InOrder(Len(provers))
    /\ Called("bad_response")
    /\ \E j \in 1..Len(final_responses) :
        \E z \in BatchResponses \ {final_responses[j]} :
            final_responses' = [final_responses EXCEPT ![j] = z]
    /\ UNCHANGED <<verifiers, initial_messages>>

\* The last element of one list, or of the two lists of the proof, is left
\* out.
DeliverMismatch ==
    /\ order = InOrder(Len(provers))
    /\ Len(provers) > 0
    /\ Called("mismatch")
    /\ \E short \in (SUBSET {"verifiers", "initial_messages", "final_responses"})
                        \ {{}, {"verifiers", "initial_messages", "final_responses"}} :
        LET Cut(name, list) ==
                IF name \in short THEN SubSeq(list, 1, Len(list) - 1) ELSE list
        IN  /\ verifiers' = Cut("verifiers", verifiers)
            /\ initial_messages' = Cut("initial_messages", initial_messages)
            /\ final_responses' = Cut("final_responses", final_responses)

\* lines 241-243.
VerifyShape ==
    /\ bpc = "verify"
    /\ IF ShapeMismatch(verifiers, initial_messages, final_responses)
       THEN /\ outcome' = "VerificationError"
            /\ bpc' = "verified"
       ELSE /\ bpc' = "verify_absorb"
            /\ UNCHANGED outcome
    /\ UNCHANGED <<provers, order, verifiers, initial_messages, final_responses,
                   transcript, challenges, calls, delivery, proof>>
    /\ UNCHANGED <<vars, rvars>>

\* lines 245-252.
VerifyAbsorb ==
    /\ bpc = "verify_absorb"
    /\ Len(transcript) < Len(initial_messages)
    /\ LET m == initial_messages[Len(transcript) + 1]
       IN  IF UpdateTranscriptFails(m)
           THEN /\ outcome' = "InvalidEncoding"
                /\ bpc' = "verified"
                /\ UNCHANGED transcript
           ELSE /\ transcript' = Append(transcript, m)
                /\ UNCHANGED <<bpc, outcome>>
    /\ UNCHANGED <<provers, order, verifiers, initial_messages, final_responses,
                   challenges, calls, delivery, proof>>
    /\ UNCHANGED <<vars, rvars>>

\* line 254.
VerifyChallenge ==
    /\ bpc = "verify_absorb"
    /\ Len(transcript) = Len(initial_messages)
    /\ challenges' = Append(challenges, TranscriptChallenge(transcript))
    /\ bpc' = "verify_loop"
    /\ UNCHANGED <<provers, order, verifiers, initial_messages, final_responses,
                   transcript, calls, outcome, delivery, proof>>
    /\ UNCHANGED <<vars, rvars>>

\* lines 255-257, one iteration: an index past the end of a list panics.
VerifyNext ==
    /\ bpc = "verify_loop"
    /\ Len(calls) < Len(verifiers)
    /\ LET i == Len(calls) + 1
       IN  /\ calls' = Append(calls, i)
           /\ IF i > Len(initial_messages) \/ i > Len(final_responses)
              THEN outcome' = "panic" /\ bpc' = "verified"
              ELSE LET res == Verify(verifiers[i], challenges[Len(challenges)],
                                     initial_messages[i], final_responses[i])
                   IN  IF res # "Ok"
                       THEN outcome' = res /\ bpc' = "verified"
                       ELSE UNCHANGED <<outcome, bpc>>
    /\ UNCHANGED <<provers, order, verifiers, initial_messages, final_responses,
                   transcript, challenges, delivery, proof>>
    /\ UNCHANGED <<vars, rvars>>

\* line 259.
VerifyOk ==
    /\ bpc = "verify_loop"
    /\ Len(calls) = Len(verifiers)
    /\ outcome' = "Ok"
    /\ bpc' = "verified"
    /\ UNCHANGED <<provers, order, verifiers, initial_messages, final_responses,
                   transcript, challenges, calls, delivery, proof>>
    /\ UNCHANGED <<vars, rvars>>

NextBatch ==
    \/ GenerateAll
    \/ ProveAbsorb
    \/ ProveChallenge
    \/ ProveRespond
    \/ Deliver
    \/ DeliverBadMessage
    \/ DeliverBadResponse
    \/ DeliverMismatch
    \/ VerifyShape
    \/ VerifyAbsorb
    \/ VerifyChallenge
    \/ VerifyNext
    \/ VerifyOk

SpecBatch == InitBatch /\ [][NextBatch]_<<vars, rvars, bvars>>

(***************************************************************************)
(* Definitions the properties are stated with.                             *)
(***************************************************************************)
\* The transactions the run has dispatched, and those among them whose
\* validation logged an error.
Dispatched == {batch[i] : i \in 1..(idx - 1)}

Failed == {e[1] : e \in errlog}

\* The encryption of zero with no blinding: the neutral ciphertext.
ZeroCipher == Encrypt(H, 0, 0)

\* balance after transaction file tx has taken effect on user's account: an
\* issuance credits its issuer, a transfer debits its sender and credits its
\* receiver.
Effect(balance, tx, user) ==
    IF tx.kind = "IssueJustify"
    THEN IF tx.account_id \in AccountIds /\ UserOf(tx.account_id) = user
         THEN CAdd(balance, tx.enc_issued_amount)
         ELSE balance
    ELSE IF tx.kind = "TransferJustify"
    THEN IF tx.sndr_account_id \in AccountIds /\ UserOf(tx.sndr_account_id) = user
         THEN CSub(balance, tx.enc_amount_using_sndr)
         ELSE IF tx.rcvr_account_id \in AccountIds /\ UserOf(tx.rcvr_account_id) = user
         THEN CAdd(balance, tx.enc_amount_using_rcvr)
         ELSE balance
    ELSE balance

RECURSIVE EffectsOf(_, _, _)
\* balance after the transactions of the set ids have taken effect on user.
EffectsOf(balance, ids, user) ==
    IF ids = {} THEN balance
    ELSE LET t == CHOOSE t \in ids : TRUE
         IN  EffectsOf(Effect(balance, txs[t], user), ids \ {t}, user)

RECURSIVE SumOfResults(_, _, _, _)
\* The sum of the amounts present in the results numbered i and above that
\* name (user, Ticker) with the given direction.
SumOfResults(rs, i, user, direction) ==
    IF i > Len(rs) THEN ZeroCipher
    ELSE LET r == rs[i]
             rest == SumOfResults(rs, i + 1, user, direction)
         IN  IF /\ r.user = user
                /\ r.ticker = Ticker
                /\ r.direction = direction
                /\ r.amount # <<>>
             THEN CAdd(r.amount[1], rest)
             ELSE rest

RunOk == pc = "idle" /\ ret = "Ok"

(***************************************************************************)
(* C1: the balance the folding loop saves for an account is the balance it *)
(* loaded changed by the transactions of the run that validated, and by    *)
(* those only: a transfer whose validation failed is neither subtracted    *)
(* from its sender nor added to its receiver.                              *)
(***************************************************************************)
C1_FailedTransferLeavesBalances ==
    \A u \in Users :
        folded[u] # <<>> =>
            /\ acct[u] # <<>>
            /\ acct[u][1].enc_balance =
                   EffectsOf(folded[u][1].enc_balance, Dispatched \ Failed, u)

\* A run returned Ok in which a transfer failed its proofs, both its
\* accounts were folded, and another transaction changed a balance.
C1_Witness ==
    /\ RunOk
    /\ \E e \in errlog :
        /\ txs[e[1]].kind = "TransferJustify"
        /\ e[2] = "library"
        /\ folded[UserOf(txs[e[1]].sndr_account_id)] # <<>>
        /\ folded[UserOf(txs[e[1]].rcvr_account_id)] # <<>>
    /\ \E u \in Users : folded[u] # <<>> /\ acct[u] # folded[u]

(***************************************************************************)
(* C2: for every (user, ticker) of the run's results, the balance saved is *)
(* the balance loaded plus the amounts of its Incoming results minus the   *)
(* amounts of its Outgoing results, the results without amount counting    *)
(* for nothing; a run that returns Ok has folded every such account.       *)
(***************************************************************************)
C2_BalanceFolding ==
    /\ \A u \in Users :
        folded[u] # <<>> =>
            /\ acct[u] # <<>>
            /\ acct[u][1].enc_balance =
                   CSub(CAdd(folded[u][1].enc_balance,
                             SumOfResults(results, 1, u, "Incoming")),
                        SumOfResults(results, 1, u, "Outgoing"))
    /\ RunOk => \A ut \in AccountsOf(results) : folded[ut[1]] # <<>>

\* A run returned Ok whose results hold, for one account, an Outgoing amount
\* and a result without amount, and an Incoming amount for an account.
C2_Witness ==
    /\ RunOk
    /\ \E i, j, k \in DOMAIN results :
        /\ results[i].user = results[j].user
        /\ results[i].direction = "Outgoing"
        /\ results[i].amount # <<>>
        /\ results[j].amount = <<>>
        /\ results[k].direction = "Incoming"
        /\ results[k].amount # <<>>

(***************************************************************************)
(* C3 (as claimed): no error met while processing one ready transaction    *)
(* makes the run return an error: the run never stops at the loads that    *)
(* precede validate_transaction, nor at the folding loop's load of an      *)
(* account that a failed transaction named.                                *)
(***************************************************************************)
C3_PerTransactionErrorNeverAborts ==
    ~(pc = "idle" /\ ret \in {"ErrTransferPreload", "ErrFoldLoad"})

(***************************************************************************)
(* C4 (as claimed): the value of LAST_VALIDATED_TX_ID never decreases.     *)
(***************************************************************************)
C4_LastValidatedNeverDecreases ==
    [][(lastValidated # <<>> /\ lastValidated' # <<>>)
          => lastValidated'[1] >= lastValidated[1]]_vars

(***************************************************************************)
(* C5 (as claimed): scenario S6 in one run.  The store holds an issuance   *)
(* of IssuedAmount to account 1 as file 1 and a transfer of TransferAmount *)
(* from 1 to 2 as file 2, both valid and both ready when the run started;  *)
(* both accounts were loaded with a zero balance; no store operation       *)
(* failed.  Then account 1 ends with IssuedAmount - TransferAmount,        *)
(* account 2 with TransferAmount, and LAST_VALIDATED_TX_ID is 2.           *)
(***************************************************************************)
ScenarioS6 ==
    /\ RunOk
    /\ batch = <<1, 2>>
    /\ Len(txs) = 2
    /\ txs[1].kind = "IssueJustify" /\ txs[1].account_id = 1 /\ txs[1].ok
    /\ txs[2].kind = "TransferJustify" /\ txs[2].ok
    /\ txs[2].sndr_account_id = 1 /\ txs[2].rcvr_account_id = 2
    /\ \A u \in Users :
        folded[u] # <<>> /\ folded[u][1].enc_balance = NewPubAccount(IdOf(u)).enc_balance
    /\ \A e \in errlog : e[2] # "io"

C5_ScenarioS6 ==
    ScenarioS6 =>
        /\ Decrypt(SecretKey(1), acct["A"][1].enc_balance) = IssuedAmount - TransferAmount
        /\ Decrypt(SecretKey(2), acct["B"][1].enc_balance) = TransferAmount
        /\ lastValidated = <<2>>

(***************************************************************************)
(* C6 (as claimed): a run that starts right after a run that returned Ok   *)
(* without logging an error, no transaction having been added, leaves the  *)
(* accounts, the transaction files and LAST_VALIDATED_TX_ID as that run    *)
(* left them.                                                              *)
(***************************************************************************)
C6_SecondRunIsNoOp ==
    (RunOk /\ snap # <<>>) => store = snap[1]

(***************************************************************************)
(* C7 (as claimed): after a run that returns Ok, LAST_VALIDATED_TX_ID is   *)
(* the highest tx_id among the transactions the run validated, and never   *)
(* the tx_id of a transaction whose validation failed.                     *)
(***************************************************************************)
C7_LastValidatedIsHighestValidated ==
    RunOk =>
        /\ lastValidated # <<>>
        /\ lastValidated[1] \notin Failed
        /\ \A t \in Dispatched \ Failed : t <= lastValidated[1]
        /\ (Dispatched \ Failed # {}) => lastValidated[1] \in Dispatched \ Failed

(***************************************************************************)
(* C8 (as claimed): whenever the run has stopped, it has saved the new     *)
(* balance of every account its results change or of none of them: there   *)
(* are no two accounts, one saved with a changed balance and one whose     *)
(* changed balance was not saved.                                          *)
(***************************************************************************)
Stopped == pc = "idle" /\ ret # "none"

Committed(u) == folded[u] # <<>> /\ acct[u] # folded[u]

Uncommitted(u) ==
    /\ <<u, Ticker>> \in AccountsOf(results)
    /\ folded[u] = <<>>
    /\ acct[u] # <<>>
    /\ FoldedAccount(acct[u][1], results, u, Ticker) # acct[u][1]

C8_BalancesCommitAtomically ==
    Stopped => ~(\E u, v \in Users : Committed(u) /\ Uncommitted(v))

(***************************************************************************)
(* C9 (as claimed): while the dispatch loop runs, no public account is     *)
(* written.                                                                *)
(***************************************************************************)
C9_AllAccountWritesInFolding ==
    [][pc = "dispatch" => acct' = acct]_vars

(***************************************************************************)
(* C9 (amended): while the dispatch loop runs, the only public account     *)
(* written is the one of the account-creation transaction being            *)
(* dispatched, when its validation succeeds, and what is written is that   *)
(* transaction's account: no amount of an issuance or of a transfer        *)
(* reaches a balance before the folding loop.                              *)
(***************************************************************************)
C9_DispatchWritesOnlyNewAccounts ==
    [][pc = "dispatch" =>
          \A u \in Users :
              acct'[u] # acct[u] =>
                  /\ idx <= Len(batch)
                  /\ txs[batch[idx]].kind = "Account"
                  /\ txs[batch[idx]].ok
                  /\ UserOf(txs[batch[idx]].account_id) = u
                  /\ acct'[u] = <<NewPubAccount(txs[batch[idx]].account_id)>>]_vars

\* The dispatch loop has validated an account creation and holds the amount
\* of a validated issuance or transfer that no balance has received yet.
C9_Witness ==
    /\ pc = "dispatch"
    /\ \E t \in Dispatched \ Failed : txs[t].kind = "Account"
    /\ \E i \in DOMAIN results :
        /\ results[i].amount # <<>>
        /\ acct[results[i].user] # <<>>
        /\ FoldedAccount(acct[results[i].user][1], results, results[i].user, Ticker)
               # acct[results[i].user][1]

(***************************************************************************)
(* C10: a step of the dispatch loop that calls validate_transaction either *)
(* saves the transfer as Validated and appends the two results (sender,    *)
(* ticker, Outgoing, enc_amount_using_sndr) and (receiver, ticker,         *)
(* Incoming, enc_amount_using_rcvr), which it does only for a transfer     *)
(* whose proofs are valid, or logs an error, appends two results without   *)
(* amount and writes no transaction file.                                  *)
(***************************************************************************)
C10_TransferResults ==
    [][(Dispatching("TransferJustify") /\ pc' = "dispatch") =>
          LET t == batch[idx]
              tx == txs[t]
          IN  \/ /\ tx.ok
                 /\ t \notin {e[1] : e \in errlog'}
                 /\ txs' = [txs EXCEPT ![t].state = "Validated"]
                 /\ results' = results \o
                        <<[user |-> UserOf(tx.sndr_account_id), ticker |-> Ticker,
                           direction |-> "Outgoing",
                           amount |-> <<tx.enc_amount_using_sndr>>],
                          [user |-> UserOf(tx.rcvr_account_id), ticker |-> Ticker,
                           direction |-> "Incoming",
                           amount |-> <<tx.enc_amount_using_rcvr>>]>>
              \/ /\ t \in {e[1] : e \in errlog'}
                 /\ txs' = txs
                 /\ Len(results') = Len(results) + 2
                 /\ SubSeq(results', 1, Len(results)) = results
                 /\ IsError(results'[Len(results) + 1])
                 /\ IsError(results'[Len(results) + 2])]_vars

\* A run has dispatched a transfer that validated and a transfer that failed.
C10_Witness ==
    /\ \E t \in Dispatched \ Failed :
        txs[t].kind = "TransferJustify" /\ txs[t].state = "Validated"
    /\ \E t \in Dispatched \cap Failed : txs[t].kind = "TransferJustify"

(***************************************************************************)
(* C11: a step of the dispatch loop that calls validate_asset_issuance     *)
(* either saves the issuance as Validated and appends the one result       *)
(* (issuer, ticker, Incoming, enc_issued_amount), which it does only for   *)
(* an issuance that verifies, or logs an error, appends one result without *)
(* amount and writes no file.  The balance the folding loop saves for an   *)
(* account that no validated transfer of the run names is the balance it   *)
(* loaded plus the amount of each issuance to it that the run validated,   *)
(* once each and of no other; a run that returns Ok has folded the account *)
(* of every issuance it validated.                                         *)
(***************************************************************************)
ValidatedIssuances(u) ==
    {t \in Dispatched \ Failed :
        txs[t].kind = "IssueJustify" /\ GetUserTickerFrom(txs[t].account_id) = <<u, Ticker>>}

ValidatedTransfers(u) ==
    {t \in Dispatched \ Failed :
        /\ txs[t].kind = "TransferJustify"
        /\ u \in {UserOf(txs[t].sndr_account_id), UserOf(txs[t].rcvr_account_id)}}

C12_ProcessedFilesAreValidated ==
    RunOk => \A t \in Dispatched \ Failed : txs[t].state = "Validated"

(***************************************************************************)
(* C13: the file of an issuance or transfer whose validation logged an     *)
(* error, or at whose preparation the run stopped, is still in the Started *)
(* substate and is among the transactions a later run finds ready.         *)
(***************************************************************************)
ReadySet == {LoadAllUnverifiedAndReady(txs)[i] :
                 i \in 1..Len(LoadAllUnverifiedAndReady(txs))}

C13_FailedStaysStarted ==
    /\ \A t \in Dispatched \cap Failed :
        txs[t].kind \in {"IssueJustify", "TransferJustify"} =>
            txs[t].state = "Started" /\ t \in ReadySet
    /\ (pc = "idle" /\ ret \in {"ErrTransferPreload", "ErrDebugDecrypt"}
            /\ idx <= Len(batch)) =>
            txs[batch[idx]].state = "Started" /\ batch[idx] \in ReadySet

\* A run has stopped in which the proofs of an issuance or of a transfer did
\* not verify and another transaction was saved as Validated.
C13_Witness ==
    /\ Stopped
    /\ \E e \in errlog :
        /\ e[2] = "library"
        /\ txs[e[1]].kind \in {"IssueJustify", "TransferJustify"}
    /\ \E t \in DOMAIN txs : txs[t].state = "Validated"

(***************************************************************************)
(* C14 (as claimed): a run that returns the error of a transaction file    *)
(* that fails to load, or of a ready transaction of another kind, has      *)
(* written no public account and no LAST_VALIDATED_TX_ID, and the former   *)
(* has dispatched nothing.                                                 *)
(***************************************************************************)
FatalStop ==
    pc = "idle" /\ ret \in {"ErrLoadAll", "TransactionIsNotReadyForValidation"}

C14_FatalErrorWritesNothing ==
    FatalStop =>
        /\ start = <<acct, lastValidated>>
        /\ ret = "ErrLoadAll" => Dispatched = {}

(***************************************************************************)
(* C14 (amended): a ready transaction of another kind makes the run return *)
(* the error where it stands in the dispatch loop, and so does a file that *)
(* fails to load before anything is dispatched.  Such a run has folded no  *)
(* balance and written no LAST_VALIDATED_TX_ID; the only public accounts   *)
(* it has written are those of the account creations it validated before   *)
(* the error, each as its account-creation transaction holds it.           *)
(***************************************************************************)
C14_FatalErrorFoldsNothing ==
    /\ [][Dispatching("Invalid") =>
             pc' = "idle" /\ ret' = "TransactionIsNotReadyForValidation"]_vars
    /\ [](FatalStop =>
            /\ lastValidated = start[2]
            /\ folded = NoneFolded
            /\ \A u \in Users :
                acct[u] # start[1][u] =>
                    /\ acct[u] = <<NewPubAccount(IdOf(u))>>
                    /\ \E t \in Dispatched \ Failed :
                        /\ txs[t].kind = "Account"
                        /\ txs[t].ok
                        /\ UserOf(txs[t].account_id) = u
            /\ ret = "ErrLoadAll" => (Dispatched = {} /\ acct = start[1]))

\* A run returned the error of a ready transaction of another kind after it
\* had validated an issuance or a transfer.
C14_Witness ==
    /\ pc = "idle"
    /\ ret = "TransactionIsNotReadyForValidation"
    /\ \E i \in DOMAIN results : results[i].amount # <<>>

(***************************************************************************)
(* C15: a step of the dispatch loop that calls validate_account goes on to *)
(* the next transaction of the batch whatever validate_account returned.   *)
(* It writes the public account of the transaction when                    *)
(* AccountValidator.verify accepted it and no error was returned, and      *)
(* writes nothing and logs the error otherwise; it writes no transaction   *)
(* file and appends no result.                                             *)
(***************************************************************************)
C15_AccountValidation ==
    [][Dispatching("Account") =>
          LET t == batch[idx]
              tx == txs[t]
              u == UserOf(tx.account_id)
          IN  /\ pc' = "dispatch"
              /\ idx' = idx + 1
              /\ txs' = txs
              /\ results' = results
              /\ IF t \in {e[1] : e \in errlog'}
                 THEN acct' = acct
                 ELSE /\ VerifyAccount(tx)
                      /\ acct' = [acct EXCEPT ![u] = <<NewPubAccount(tx.account_id)>>]
              /\ ~VerifyAccount(tx) => t \in {e[1] : e \in errlog'}]_vars

\* The dispatch loop logged the error of an account creation whose proofs do
\* not verify, left its account unwritten, and validated a later transaction.
C15_Witness ==
    \E t \in Dispatched \cap Failed :
        /\ txs[t].kind = "Account"
        /\ ~txs[t].ok
        /\ acct[UserOf(txs[t].account_id)] = <<>>
        /\ \E t2 \in Dispatched \ Failed : t2 > t

(***************************************************************************)
(* Definitions the properties of the refreshment proof are stated with.    *)
(***************************************************************************)
\* X = X1 - X2, Y = Y1 - Y2 and P of the statement.
StatementX == VerifierOf(stmt).x

StatementY == VerifierOf(stmt).y

StatementP == VerifierOf(stmt).pub_key

Identity == <<0, 0>>

\* The statement holds with the prover's key: X = s*Y (P = s*H by PubKey).
StatementHolds == StatementX = SMul(stmt.secret_key, StatementY)

\* The inverse of a non-zero scalar.
Inverse(k) == CHOOSE j \in 1..(Ell - 1) : (k * j) % Ell = 1

\* s = (z - z') / (c - c') of two transcripts on one initial message.
Extracted ==
    ((session.final_response - first[1].final_response)
        * Inverse((session.challenge - first[1].challenge) % Ell)) % Ell

(***************************************************************************)
(* C16: for a statement with X = s*Y and P = s*H, whatever the nonce u and *)
(* the challenge c, the prover's initial message is (u*Y, u*H), its final  *)
(* response is u + c*s, and verify accepts them.                           *)
(***************************************************************************)
C16_Completeness ==
    (rpc = "verified" /\ origin = "interactive" /\ first = <<>> /\ StatementHolds) =>
        /\ session.initial_message =
               [a |-> SMul(session.prover.u, StatementY), b |-> SMul(session.prover.u, H)]
        /\ session.final_response =
               (session.prover.u + session.challenge * stmt.secret_key) % Ell
        /\ verdict = "Ok"

\* verify has returned on an honest transcript for two different ciphertexts
\* of one plaintext, with secret key, nonce and challenge all non-zero.
C16_Witness ==
    /\ rpc = "verified"
    /\ origin = "interactive"
    /\ first = <<>>
    /\ StatementHolds
    /\ StatementY # Identity
    /\ stmt.secret_key # 0
    /\ session.prover.u # 0
    /\ session.challenge # 0

(***************************************************************************)
(* C17: when ciphertext2 is refresh(ciphertext1, r), r = 0 included, the   *)
(* proof single_property_prover makes is accepted by                       *)
(* single_property_verifier.                                               *)
(***************************************************************************)
C17_RefreshThenProve ==
    (/\ rpc = "verified"
     /\ origin = "single_property"
     /\ \E r \in Scalars :
            Refresh(stmt.secret_key, stmt.ciphertext1, r) = <<stmt.ciphertext2>>)
        => verdict = "Ok"

\* The non-interactive verifier has returned on the proof for a ciphertext
\* and its refreshment with r = 0, under a non-zero key.
C17_Witness ==
    /\ rpc = "verified"
    /\ origin = "single_property"
    /\ Refresh(stmt.secret_key, stmt.ciphertext1, 0) = <<stmt.ciphertext2>>
    /\ stmt.secret_key # 0
    /\ session.prover.u # 0

(***************************************************************************)
(* C18: when verify has accepted (c, z) and (c', z') with c # c' on one    *)
(* initial message, s = (z - z') / (c - c') satisfies P = s*H and X = s*Y. *)
(***************************************************************************)
C18_SpecialSoundness ==
    (/\ rpc = "verified"
     /\ verdict = "Ok"
     /\ first # <<>>
     /\ first[1].challenge # session.challenge)
        => /\ StatementP = SMul(Extracted, H)
           /\ StatementX = SMul(Extracted, StatementY)

\* verify has accepted two transcripts with different challenges and
\* different responses on an initial message the prover did not make.
C18_Witness ==
    /\ rpc = "verified"
    /\ verdict = "Ok"
    /\ first # <<>>
    /\ first[1].challenge # session.challenge
    /\ first[1].final_response # session.final_response
    /\ origin = "forged"
    /\ StatementY # Identity

(***************************************************************************)
(* C19: for a statement that holds, verify called with the challenge and   *)
(* the response of an honest transcript and with a replaced by another     *)
(* point (or the initial message by the default one) returns the error of  *)
(* check 1.                                                                *)
(***************************************************************************)
C19_BadInitialMessage ==
    (rpc = "verified" /\ origin = "bad_initial_message" /\ StatementHolds) =>
        verdict = "check: 1"

\* verify has returned on an honest transcript, made with a non-zero nonce,
\* whose a alone was replaced.
C19_Witness ==
    /\ rpc = "verified"
    /\ origin = "bad_initial_message"
    /\ StatementHolds
    /\ session.initial_message.b = SMul(session.prover.u, H)
    /\ session.initial_message.a # SMul(session.prover.u, StatementY)
    /\ session.prover.u # 0

(***************************************************************************)
(* C20 (as claimed): for a statement that holds, verify called with the    *)
(* challenge and the initial message of an honest transcript and with z    *)
(* replaced by another scalar returns the error of check 1, whatever the   *)
(* two ciphertexts.                                                        *)
(***************************************************************************)
C20_BadFinalResponseCheck1 ==
    (rpc = "verified" /\ origin = "bad_final_response" /\ StatementHolds) =>
        verdict = "check: 1"

(***************************************************************************)
(* C20 (amended): such a call never returns Ok; it returns the error of    *)
(* check 1 when the Y parts of the two ciphertexts differ, and the error   *)
(* of check 2 when they are equal.                                         *)
(***************************************************************************)
C20_BadFinalResponseRejected ==
    (rpc = "verified" /\ origin = "bad_final_response" /\ StatementHolds) =>
        verdict = IF StatementY # Identity THEN "check: 1" ELSE "check: 2"

\* verify has returned on an honest transcript with z replaced, for two
\* ciphertexts with the same Y part.
C20_Witness ==
    /\ rpc = "verified"
    /\ origin = "bad_final_response"
    /\ StatementHolds
    /\ StatementY = Identity
    /\ session.final_response #
           (session.prover.u + session.challenge * stmt.secret_key) % Ell

(***************************************************************************)
(* C26: no run of validate_all_pending stops on the error of a decryption: *)
(* whether the run returns Ok, and the balances it saves, do not depend on *)
(* a decryption succeeding.                                                *)
(***************************************************************************)
C26_NoDecryptionOnValidationPath ==
    ~(pc = "idle" /\ ret = "ErrDebugDecrypt")

(***************************************************************************)
(* C27: the save of LAST_VALIDATED_TX_ID is the last store write of a run  *)
(* that returns Ok: it is made by the step that returns Ok, after every    *)
(* write of a transaction file and of an account, and nothing is written   *)
(* once the run has returned; a run that returns an error from the         *)
(* dispatch or from the folding does not write it.                         *)
(***************************************************************************)
RunErrors == {"ErrTransferPreload", "ErrDebugDecrypt", "ErrFoldLoad",
              "ErrFoldSave", "TransactionIsNotReadyForValidation"}

C27_LastValidatedWrittenLast ==
    /\ [][/\ lastValidated' # lastValidated =>
                (pc = "fold" /\ foldTodo = {} /\ pc' = "idle" /\ ret' = "Ok")
          /\ (pc # "idle" /\ pc' = "idle" /\ ret' = "Ok") =>
                /\ lastValidated' = <<last_tx_id>>
                /\ acct' = acct
                /\ txs' = txs
          /\ pc = "idle" =>
                /\ acct' = acct
                /\ lastValidated' = lastValidated
                /\ \A t \in 1..Len(txs) : txs'[t] = txs[t]]_vars
    /\ [](pc = "idle" /\ ret \in RunErrors => lastValidated = start[2])

\* A run has returned Ok after saving a transaction file as Validated and a
\* folded balance, and LAST_VALIDATED_TX_ID has a new value.
C27_Witness ==
    /\ RunOk
    /\ \E u \in Users : Committed(u)
    /\ \E t \in Dispatched : txs[t].state = "Validated"
    /\ lastValidated = <<last_tx_id>>
    /\ lastValidated # start[2]

(***************************************************************************)
(* C28: verify evaluates z*Y = a + c*X before z*H = b + c*P: it returns    *)
(* the error of check 1 whenever the first equation fails, whatever the    *)
(* second, the error of check 2 exactly when the first holds and the       *)
(* second fails, and Ok exactly when both hold.                            *)
(***************************************************************************)
Equation1Holds ==
    SMul(session.final_response, StatementY) =
        PAdd(session.initial_message.a, SMul(session.challenge, StatementX))

Equation2Holds ==
    SMul(session.final_response, H) =
        PAdd(session.initial_message.b, SMul(session.challenge, StatementP))

C28_CheckOrder ==
    rpc = "verified" =>
        /\ ~Equation1Holds => verdict = "check: 1"
        /\ verdict = "check: 2" <=> (Equation1Holds /\ ~Equation2Holds)
        /\ verdict = "Ok" <=> (Equation1Holds /\ Equation2Holds)

\* verify has returned on a transcript that fails both equations.
C28_Witness ==
    /\ rpc = "verified"
    /\ ~Equation1Holds
    /\ ~Equation2Holds
    /\ verdict = "check: 1"

(***************************************************************************)
(* C25: the generator the prover draws its nonce from is keyed with the    *)
(* prover's secret key: with the transcript and the entropy fixed, a       *)
(* prover made for the same two ciphertexts with another secret key draws  *)
(* another nonce.                                                          *)
(***************************************************************************)
OtherProver(secret_key) ==
    ProverAwaitingChallengeNew(secret_key, stmt.ciphertext1, stmt.ciphertext2)

C25_NonceDependsOnSecretKey ==
    (rpc = "committed" /\ origin = "interactive") =>
        \A rng \in Scalars :
            CreateTranscriptRng(ProverOf(stmt), rng, NewTranscript) = session.prover.u =>
                \A secret_key \in Scalars \ {stmt.secret_key} :
                    GenerateInitialMessage(
                        OtherProver(secret_key),
                        CreateTranscriptRng(OtherProver(secret_key), rng, NewTranscript)
                    ).prover.u # session.prover.u

(***************************************************************************)
(* Definitions the properties of the batch proof are stated with.          *)
(***************************************************************************)
ShapesMatch ==
    Len(verifiers) = Len(initial_messages) /\ Len(initial_messages) = Len(final_responses)

\* The initial messages update_transcript refuses.
Unencoded ==
    {i \in 1..Len(initial_messages) :
        ~IsValidPoint(initial_messages[i].a) \/ ~IsValidPoint(initial_messages[i].b)}

Least(S) == CHOOSE i \in S : \A j \in S : i <= j

\* Y = Y1 - Y2 of a prover's statement.
ProverY(prover) == PSub(prover.ciphertext1.y, prover.ciphertext2.y)

\* The two equations of verifier i hold of the i-th message and response
\* under challenge c.
Accepts(i, c) ==
    /\ SMul(final_responses[i], verifiers[i].y) =
           PAdd(initial_messages[i].a, SMul(c, verifiers[i].x))
    /\ SMul(final_responses[i], H) =
           PAdd(initial_messages[i].b, SMul(c, verifiers[i].pub_key))

(***************************************************************************)
(* C21: when the numbers of verifiers, of initial messages and of final    *)
(* responses are not all equal, verify_multiple_encryption_properties      *)
(* returns the verification error and has absorbed no initial message,     *)
(* squeezed no challenge and called no verifier.                           *)
(***************************************************************************)
C21_ShapeMismatchRejected ==
    (bpc = "verified" /\ ~ShapesMatch) =>
        /\ outcome = "VerificationError"
        /\ transcript = <<>>
        /\ challenges = <<>>
        /\ calls = <<>>

\* verify_multiple has returned on a proof of two statements given with one
\* verifier.
C21_Witness ==
    /\ bpc = "verified"
    /\ delivery = "mismatch"
    /\ Len(verifiers) = 1
    /\ Len(initial_messages) = 2
    /\ Len(final_responses) = 2
    /\ outcome = "VerificationError"

(***************************************************************************)
(* C22: prove_multiple absorbs every prover's initial message in input     *)
(* order, squeezes one challenge, after the last absorb, and every         *)
(* prover's response is made with that challenge; verify_multiple given    *)
(* the proof and the matching verifiers in the same order squeezes the     *)
(* same challenge and returns Ok.                                          *)
(***************************************************************************)
C22_BatchCompleteness ==
    /\ [][challenges' # challenges =>
            \/ bpc = "proved" /\ challenges' = <<>>
            \/ /\ bpc \in {"prove_absorb", "verify_absorb"}
               /\ challenges = <<>>
               /\ transcript = initial_messages
               /\ challenges' = <<TranscriptChallenge(initial_messages)>>]_bvars
    /\ [](bpc = "proved" =>
            /\ outcome = "Ok"
            /\ transcript = initial_messages
            /\ Len(challenges) = 1
            /\ Len(initial_messages) = Len(provers)
            /\ Len(final_responses) = Len(provers)
            /\ \A i \in 1..Len(provers) :
                /\ initial_messages[i] =
                       [a |-> SMul(provers[i].rand_commitment, ProverY(provers[i])),
                        b |-> SMul(provers[i].rand_commitment, H)]
                /\ final_responses[i] =
                       (provers[i].rand_commitment
                          + challenges[1] * provers[i].secret_key) % Ell)
    /\ [](bpc = "verified" /\ delivery = "honest" =>
            /\ outcome = "Ok"
            /\ challenges = <<proof[1].challenge>>
            /\ transcript = proof[1].initial_messages
            /\ calls = InOrder(Len(verifiers)))

\* verify_multiple has returned on the proof of two provers of different
\* statements with non-zero nonces, under a non-zero challenge.
C22_Witness ==
    /\ bpc = "verified"
    /\ delivery = "honest"
    /\ Len(provers) = 2
    /\ provers[1].secret_key # provers[2].secret_key
    /\ ProverY(provers[1]) # ProverY(provers[2])
    /\ \A i \in 1..2 : provers[i].rand_commitment # 0
    /\ challenges # <<0>>
    /\ outcome = "Ok"

(***************************************************************************)
(* C23 (as claimed): the proof of a batch of two or more provers, made     *)
(* with the provers in another order than the verifiers, is rejected by    *)
(* verify_multiple.                                                        *)
(***************************************************************************)
C23_PermutedProofRejected ==
    (bpc = "verified" /\ delivery = "permuted") => outcome # "Ok"

(***************************************************************************)
(* C23 (amended): such a proof is rejected, with the error of a            *)
(* verifier's check, exactly when at some position the prover placed there *)
(* differs from the prover the verifier was made for in its secret key,    *)
(* the challenge being non-zero, or in Y, its nonce being non-zero; it is  *)
(* accepted otherwise, as it is when the provers exchanged prove the same  *)
(* statement.                                                              *)
(***************************************************************************)
Fits(i) ==
    /\ (challenges[1] * (provers[i].secret_key - provers[order[i]].secret_key)) % Ell = 0
    /\ SMul(provers[i].rand_commitment,
            PSub(ProverY(provers[order[i]]), ProverY(provers[i]))) = Identity

C23_PermutedProofVerdict ==
    (bpc = "verified" /\ delivery = "permuted") =>
        /\ outcome \in {"Ok", "check: 1", "check: 2"}
        /\ outcome = "Ok" <=> \A i \in 1..Len(provers) : Fits(i)

\* verify_multiple has rejected the proof of two provers of statements with
\* different Y, made in the other order.
C23_Witness ==
    /\ bpc = "verified"
    /\ delivery = "permuted"
    /\ Len(provers) = 2
    /\ ProverY(provers[1]) # ProverY(provers[2])
    /\ outcome = "check: 1"

(***************************************************************************)
(* C24: prove_multiple with no prover returns Ok with no initial message   *)
(* and no final response, and verify_multiple with no verifier, message or *)
(* response returns Ok; in both the one challenge is squeezed from a       *)
(* transcript that absorbed nothing after its label, and no verifier is    *)
(* called.                                                                 *)
(***************************************************************************)
C24_EmptyBatch ==
    /\ provers = <<>> => bpc # "prove_failed"
    /\ (provers = <<>> /\ bpc = "proved") =>
            /\ outcome = "Ok"
            /\ initial_messages = <<>>
            /\ final_responses = <<>>
            /\ transcript = <<>>
            /\ challenges = <<NewTranscript>>
    /\ (bpc = "verified" /\ verifiers = <<>> /\ initial_messages = <<>>
            /\ final_responses = <<>>) =>
            /\ outcome = "Ok"
            /\ transcript = <<>>
            /\ challenges = <<NewTranscript>>
            /\ calls = <<>>

\* verify_multiple has returned on the proof of the empty batch.
C24_Witness ==
    /\ bpc = "verified"
    /\ provers = <<>>
    /\ proof = <<[initial_messages |-> <<>>, final_responses |-> <<>>,
                  challenge |-> NewTranscript]>>
    /\ outcome = "Ok"

(***************************************************************************)
(* C29: while an initial message of the batch fails update_transcript, no  *)
(* challenge is squeezed and no apply_challenge or verify is called; the   *)
(* call returns the encoding error at the first such message in input      *)
(* order, having absorbed the messages before it only.                     *)
(***************************************************************************)
C29_EncodingErrorFirst ==
    Unencoded # {} =>
        /\ challenges = <<>>
        /\ calls = <<>>
        /\ (bpc = "prove_failed" \/ (bpc = "verified" /\ ShapesMatch)) =>
                /\ outcome = "InvalidEncoding"
                /\ transcript = SubSeq(initial_messages, 1, Least(Unencoded) - 1)
        /\ bpc \notin {"prove_respond", "proved", "verify_loop"}

\* verify_multiple has returned on a proof of two statements whose second
\* initial message does not decode.
C29_Witness ==
    /\ bpc = "verified"
    /\ delivery = "bad_message"
    /\ Unencoded = {2}
    /\ transcript = <<initial_messages[1]>>
    /\ outcome = "InvalidEncoding"

(***************************************************************************)
(* C30: verify_multiple given a proof of which one initial message, or one *)
(* final response, was replaced by another value returns the verification  *)
(* error of a verifier's check: the verifiers are called in index order    *)
(* under the challenge squeezed from the messages given, and the error is  *)
(* that of the first verifier whose equations fail.                        *)
(***************************************************************************)
C30_TamperedProofRejected ==
    (bpc = "verified" /\ delivery \in {"bad_message", "bad_response"}
        /\ Unencoded = {}) =>
        LET c == TranscriptChallenge(initial_messages)
            rejecting == {i \in 1..Len(verifiers) : ~Accepts(i, c)}
        IN  /\ challenges = <<c>>
            /\ rejecting # {}
            /\ calls = InOrder(Least(rejecting))
            /\ outcome \in {"check: 1", "check: 2"}
            /\ outcome = "check: 1" <=>
                   SMul(final_responses[Least(rejecting)], verifiers[Least(rejecting)].y)
                     # PAdd(initial_messages[Least(rejecting)].a,
                            SMul(c, verifiers[Least(rejecting)].x))

\* verify_multiple has returned the error of the first verifier on a proof
\* of two statements whose second initial message was replaced.
C30_Witness ==
    /\ bpc = "verified"
    /\ delivery = "bad_message"
    /\ Len(provers) = 2
    /\ initial_messages[1] = proof[1].initial_messages[1]
    /\ initial_messages[2] # proof[1].initial_messages[2]
    /\ Unencoded = {}
    /\ calls = <<1>>
    /\ outcome # "Ok"

(***************************************************************************)
(* Definitions the properties of the supply are stated with.               *)
(***************************************************************************)
\* The plaintext of the balance of user's account, 0 when there is none.
PlainBalance(accounts, user) ==
    IF accounts[user] = <<>> THEN 0
    ELSE Decrypt(SecretKey(IdOf(user)), accounts[user][1].enc_balance)

RECURSIVE TotalOver(_, _)
TotalOver(accounts, users) ==
    IF users = {} THEN 0
    ELSE LET u == CHOOSE x \in users : TRUE
         IN  PlainBalance(accounts, u) + TotalOver(accounts, users \ {u})

\* The sum of the plaintexts of all accounts' balances.
Supply(accounts) == TotalOver(accounts, Users)

RECURSIVE IssuedBy(_)
\* The sum of the amounts of the issuances among the transactions ts.
IssuedBy(ts) ==
    IF ts = {} THEN 0
    ELSE LET t == CHOOSE x \in ts : TRUE
         IN  txs[t].amount + IssuedBy(ts \ {t})

\* The issuances the latest run saved as Validated.
IssuancesOfRun ==
    {t \in Dispatched : txs[t].kind = "IssueJustify" /\ txs[t].state = "Validated"}

(***************************************************************************)
(* C31: a run of validate_all_pending that returns Ok changes the sum of   *)
(* the plaintexts of the accounts' balances by the sum of the amounts of   *)
(* the issuances it validated, a validated transfer changing it by zero;   *)
(* so after any sequence of such runs the sum of the balances is the sum   *)
(* of the validated issuances.                                             *)
(***************************************************************************)
C31_ConservationOfSupply ==
    RunOk =>
        (Supply(acct) - Supply(start[1]) - IssuedBy(IssuancesOfRun)) % Ell = 0

(***************************************************************************)
(* C32: when a run of validate_all_pending has stopped, by Ok or by an     *)
(* error, the folding loop of that run has saved the account of every      *)
(* result of an issuance or transfer the run saved as Validated: no        *)
(* amount of a Validated file is left unapplied.                           *)
(***************************************************************************)
AccountsOfTx(t) ==
    IF txs[t].kind = "IssueJustify" THEN {UserOf(txs[t].account_id)}
    ELSE {UserOf(txs[t].sndr_account_id), UserOf(txs[t].rcvr_account_id)}

C32_ValidatedIsApplied ==
    Stopped =>
        \A t \in Dispatched :
            (txs[t].kind \in {"IssueJustify", "TransferJustify"}
                /\ txs[t].state = "Validated") =>
                \A u \in AccountsOfTx(t) : folded[u] # <<>>

(***************************************************************************)
(* C33: the pending balance a transfer is verified with is computed from   *)
(* the sender's enc_balance as the store holds it while the dispatch loop  *)
(* runs, which is the balance the run found, or the balance of an account  *)
(* creation the run validated: no amount of an issuance or transfer        *)
(* validated earlier in the run is part of it, so a transfer is saved as   *)
(* Validated only if its range proof verifies on that balance.             *)
(***************************************************************************)
C33_PendingBalanceFromPersisted ==
    [][(pc = "dispatch" /\ idx <= Len(batch) /\ idx' = idx + 1
            /\ txs[batch[idx]].kind = "TransferJustify") =>
          LET tx_id == batch[idx]
              tx == txs[tx_id]
              sender == UserOf(tx.sndr_account_id)
          IN  /\ acct[sender] # <<>>
              /\ acct[sender] \in {start[1][sender],
                                    <<NewPubAccount(tx.sndr_account_id)>>}
              /\ txs'[tx_id].state = "Validated" =>
                    RangeProofVerifies(
                        tx, ComputeEncPendingBalance(txs, tx_id, acct[sender][1]))]_vars

\* The dispatch loop has refused a transfer with valid proofs whose sender
\* received, earlier in the run, the amount of a validated issuance that
\* would have covered it.
C33_Witness ==
    /\ pc = "dispatch"
    /\ \E t \in Dispatched :
        /\ txs[t].kind = "TransferJustify"
        /\ txs[t].ok
        /\ txs[t].state = "Started"
        /\ <<t, "library">> \in errlog
        /\ \E i \in Dispatched :
            /\ i < t
            /\ txs[i].kind = "IssueJustify"
            /\ txs[i].state = "Validated"
            /\ txs[i].account_id = txs[t].sndr_account_id
        /\ LET sender == UserOf(txs[t].sndr_account_id)
           IN  /\ acct[sender] # <<>>
               /\ RangeProofVerifies(
                      txs[t],
                      ComputeEncPendingBalance(
                          txs, t, FoldedAccount(acct[sender][1], results, sender, Ticker)))

(***************************************************************************)
(* C34: the folding loop writes the accounts of the run's results only,    *)
(* and the account it saves has the id, the enc_asset_id and the memo      *)
(* (with last_processed_tx_counter) of the account it loaded: only         *)
(* enc_balance may differ.                                                 *)
(***************************************************************************)
C34_FoldingChangesBalanceOnly ==
    [][pc = "fold" =>
          \A u \in Users :
              (acct'[u] # acct[u] \/ folded'[u] # folded[u]) =>
                  /\ <<u, Ticker>> \in AccountsOf(results)
                  /\ acct[u] # <<>>
                  /\ folded'[u] = acct[u]
                  /\ acct'[u] # <<>>
                  /\ acct'[u][1].id = acct[u][1].id
                  /\ acct'[u][1].enc_asset_id = acct[u][1].enc_asset_id
                  /\ acct'[u][1].memo = acct[u][1].memo]_vars

\* A run has returned Ok after the folding loop saved a new balance for one
\* account and left alone another account, which is in no result.
C34_Witness ==
    /\ RunOk
    /\ \E u \in Users : Committed(u)
    /\ \E v \in Users :
        /\ acct[v] # <<>>
        /\ <<v, Ticker>> \notin AccountsOf(results)
        /\ folded[v] = <<>>
        /\ acct[v] = start[1][v]

====
